---- MODULE Spec2Model ----
(***************************************************************************)
(* Questionnaire state machine of jkevinp/tgui: the Questionaire object    *)
(* (questionaire/questionaire.go), its session Manager                     *)
(* (questionaire/manager.go) and the inline keyboards through which the    *)
(* chat's button taps reach the questionnaire's callback handlers.         *)
(*                                                                         *)
(* Indices of questions are 0-based as in the Go code; the TLA+ sequence   *)
(* questions[q] is 1-based, so question i is questions[q][i + 1].          *)
(***************************************************************************)
EXTENDS Integers, Sequences, FiniteSets, TLC

VARIABLES
    questions,              \* q.questions: per questionnaire, the list of Question structs
    currentQuestionIndex,   \* q.currentQuestionIndex
    msgIds,                 \* q.msgIds: tracked message ids
    onDoneHandler,          \* q.onDoneHandler # nil
    onCancelHandler,        \* q.onCancelHandler # nil
    allowEditAnswers,       \* q.allowEditAnswers
    InitialData,            \* q.InitialData
    chatID,                 \* q.chatID
    manager,                \* q.manager # nil
    conversations,          \* Manager.conversations: chat id -> questionnaire
    kbs,                    \* inline keyboards whose handler is registered and whose message is on screen
    built,                  \* the questionnaires the application has built with NewBuilder
    started,                \* the application has called q.Show
    panicked,               \* a handler hit a run-time panic (index out of range)
    budget,                 \* model bound: tracked messages each questionnaire may send
    pc,                     \* per goroutine calling the Manager: where it is in the method
    frame,                  \* per goroutine: the method it runs and the method's arguments
    mutex,                  \* Manager.mutex: the goroutine holding it for writing, those reading
    calls,                  \* model bound: the calls each goroutine has made
    currentFilter,          \* DataTable.currentFilter: the page of the table that is shown
    pagesCount,             \* DataTable.pagesCount: what the data handler last reported
    controls,               \* the keyboard the table last sent: its pagination and filter rows
    screen,                 \* the keyboards of the table and of its filter menu that are on screen
    dtb,                    \* the application's *DataTableBuilder
    UserStates,             \* StateManager.UserStates: chat id -> *UserState
    dt,                     \* what Build returned to the application: the *DataTable, the error
    kept,                   \* history: the questions a back navigation left behind it
    last                    \* what the most recent handler did: its operation, the chat of the
                            \* message it handled (0: none), its return value and its output

vars == <<questions, currentQuestionIndex, msgIds, onDoneHandler, onCancelHandler,
          allowEditAnswers, InitialData, chatID, manager, conversations, kbs,
          built, started, panicked, budget, pc, frame, mutex, calls, kept, last,
          currentFilter, pagesCount, controls, screen, dtb, dt, UserStates>>

config == <<onDoneHandler, onCancelHandler, allowEditAnswers, InitialData, chatID, manager,
            built, budget>>

threads == <<pc, frame, mutex, calls>>
table == <<currentFilter, pagesCount, controls, screen, dtb, dt>>

(***************************************************************************)
(* Program constants                                                       *)
(***************************************************************************)
QuestionFormatText == 0
QuestionFormatRadio == 1
QuestionFormatCheck == 2

CmdDone == "cmd_done"

(***************************************************************************)
(* Bounds                                                                  *)
(***************************************************************************)
\* messages one questionnaire may send before the model stops feeding it events
MaxMsgs == 4
\* messages the second questionnaire may send
MaxMsgsOther == 2
\* Manager methods each goroutine may call
MaxCalls == 2

(***************************************************************************)
(* The universe of the model                                               *)
(***************************************************************************)
Qs == {"q1", "q2"}
\* the goroutines that call the Manager at the same time
Goroutines == {"g1", "g2"}
NoQ == "none"
Chats == {101, 102}
\* the chats that send updates; the last one never runs a questionnaire
Senders == Chats \cup {103}
\* first message id handed out to each questionnaire (ids only need to be distinct)
MsgBase == [q1 |-> 100, q2 |-> 200]

\* the button grid of every choice question: two rows of callback data
ChoiceRows == << <<"a", "b">>, <<"bad">> >>
\* texts a chat may type
Texts == {"zz", "bad", CmdDone}
\* the answers the validator of the model rejects
Rejected == {"bad", CmdDone}

Formats == {QuestionFormatText, QuestionFormatRadio, QuestionFormatCheck}

RECURSIVE Flatten(_)
Flatten(rows) ==
    IF rows = <<>> THEN <<>> ELSE Head(rows) \o Flatten(Tail(rows))

Range(f) == {f[i] : i \in DOMAIN f}

\* the Question struct built for key k and format f
NewQuestion(k, f) ==
    [Key |-> k,
     QuestionFormat |-> f,
     Choices |-> IF f = QuestionFormatText THEN <<>> ELSE ChoiceRows,
     ChoicesSelected |-> <<>>,
     Answer |-> "",
     validator |-> TRUE,
     MsgID |-> 0]

\* the keys of the questions of the first questionnaire, in order
Keys == <<"k1", "k2", "k3">>

\* the question lists AddQuestion / AddMultipleAnswerQuestion can build for these keys
QuestionLists ==
    {[i \in DOMAIN Keys |-> NewQuestion(Keys[i], fs[i])] : fs \in [DOMAIN Keys -> Formats]}

(***************************************************************************)
(* Question methods                                                        *)
(***************************************************************************)
\* Validate, were the validator to reject every answer
ValidateRejectsAll(question, answer) ==
    IF question.validator THEN "error" ELSE "nil"

\* Question.Validate: "nil" or the validator's error
Validate(question, answer) ==
    IF question.validator /\ answer \in Rejected THEN "error" ELSE "nil"

IsSelected(question, choice) ==
    \E i \in DOMAIN question.ChoicesSelected : question.ChoicesSelected[i] = choice

\* Question.GetSelectedChoices: row by row the selected choices, a row without any left out
GetSelectedChoices(question) ==
    LET newRow(row) == SelectSeq(row, LAMBDA choice : IsSelected(question, choice))
        rows == [r \in DOMAIN question.Choices |-> newRow(question.Choices[r])]
    IN  SelectSeq(rows, LAMBDA row : Len(row) > 0)

\* GetUnselectedChoices, were it to keep a row that has no choice left
GetUnselectedChoicesAllRows(question) ==
    LET selected(choice) ==
            \E i \in DOMAIN question.ChoicesSelected : question.ChoicesSelected[i] = choice
        newRow(row) == SelectSeq(row, LAMBDA choice : ~selected(choice))
    IN  [r \in DOMAIN question.Choices |-> newRow(question.Choices[r])]

\* Question.GetUnselectedChoices
GetUnselectedChoices(question) ==
    LET selected(choice) ==
            \E i \in DOMAIN question.ChoicesSelected : question.ChoicesSelected[i] = choice
        newRow(row) == SelectSeq(row, LAMBDA choice : ~selected(choice))
        rows == [r \in DOMAIN question.Choices |-> newRow(question.Choices[r])]
    IN  SelectSeq(rows, LAMBDA row : Len(row) > 0)

\* AddChoiceSelected, were it to put the new selection first
AddChoiceSelectedFirst(question, answer) ==
    [question EXCEPT !.ChoicesSelected = <<answer>> \o @]

AddChoiceSelected(question, answer) ==
    [question EXCEPT !.ChoicesSelected = Append(@, answer)]

\* SetAnswer, were it to store nothing
SetAnswerNothing(question, answer) == question

SetAnswer(question, answer) ==
    [question EXCEPT !.Answer = answer]

ChoiceData(question) == Range(Flatten(question.Choices))

(***************************************************************************)
(* Manager                                                                 *)
(***************************************************************************)
\* Add, were it to keep the questionnaire a chat already has
AddKeepsEarlier(conv, chat, q) ==
    IF chat \in DOMAIN conv THEN conv
    ELSE [c \in DOMAIN conv \cup {chat} |-> IF c = chat THEN q ELSE conv[c]]

Add(conv, chat, q) ==
    [c \in DOMAIN conv \cup {chat} |-> IF c = chat THEN q ELSE conv[c]]

Remove(conv, chat) ==
    [c \in DOMAIN conv \ {chat} |-> conv[c]]

Get(conv, chat) ==
    IF chat \in DOMAIN conv THEN conv[chat] ELSE NoQ

Exists(conv, chat) == chat \in DOMAIN conv

\* HandleMessage's lookup, were it to take the questionnaire of the lowest registered chat
RouteLowest(conv, chat) ==
    conv[CHOOSE c \in DOMAIN conv : \A d \in DOMAIN conv : c <= d]

\* HandleMessage's lookup of the questionnaire of the message's chat (the caller has
\* checked that there is one)
Route(conv, chat) == conv[chat]

(***************************************************************************)
(* Handler code is sequential: each handler is a function on the record s  *)
(* of the fields a handler can write, and an action commits its result.    *)
(* s.out is the handler's output (messages shown, handlers invoked) and    *)
(* s.ret the value Answer returned.  An action binds a handler's result    *)
(* with \E over a singleton set, which has TLC compute it once.            *)
(***************************************************************************)
Here ==
    [questions |-> questions,
     currentQuestionIndex |-> currentQuestionIndex,
     msgIds |-> msgIds,
     conversations |-> conversations,
     kbs |-> kbs,
     out |-> <<>>,
     ret |-> FALSE]

Digits == <<"0", "1", "2", "3", "4", "5", "6", "7", "8", "9">>
\* fmt.Sprintf("%d", n)
Itoa(n) == Digits[n + 1]
\* strconv.Atoi: the number, or -1 for the error
Atoi(str) ==
    IF \E n \in DOMAIN Digits : Digits[n] = str
    THEN (CHOOSE n \in DOMAIN Digits : Digits[n] = str) - 1
    ELSE -1

Effect(e, q, idx, arg) == [e |-> e, q |-> q, idx |-> idx, arg |-> arg]

\* the id the chat platform gives the next message of questionnaire q
NextMsgID(s, q) == MsgBase[q] + Len(s.msgIds[q]) + 1

\* bot.DeleteMessage / DeleteMessages: the keyboards of the deleted messages leave the screen
DeleteMessages(s, ids) ==
    [s EXCEPT !.kbs = {k \in @ : k.msg \notin ids}]

Keyboard(q, kind, step, sel, msg) ==
    [q |-> q, kind |-> kind, step |-> step, sel |-> sel, msg |-> msg]

\* GetAnswers, were the questions' values to overwrite InitialData
GetAnswersQuestionWins(qs, data) ==
    LET keys == {qs[i].Key : i \in DOMAIN qs}
        lastWith(k) == CHOOSE i \in DOMAIN qs :
                          /\ qs[i].Key = k
                          /\ \A j \in DOMAIN qs : qs[j].Key = k => j <= i
        fromQuestion(k) ==
            IF qs[lastWith(k)].QuestionFormat = QuestionFormatCheck
            THEN qs[lastWith(k)].ChoicesSelected
            ELSE qs[lastWith(k)].Answer
    IN [k \in keys \cup DOMAIN data |->
          IF k \in keys THEN fromQuestion(k) ELSE data[k]]

\* Questionaire.GetAnswers
GetAnswers(qs, data) ==
    LET keys == {qs[i].Key : i \in DOMAIN qs}
        \* the loop assigns in order, so the last question with a key wins
        lastWith(k) == CHOOSE i \in DOMAIN qs :
                          /\ qs[i].Key = k
                          /\ \A j \in DOMAIN qs : qs[j].Key = k => j <= i
        fromQuestion(k) ==
            IF qs[lastWith(k)].QuestionFormat = QuestionFormatCheck
            THEN qs[lastWith(k)].ChoicesSelected
            ELSE qs[lastWith(k)].Answer
    IN [k \in keys \cup DOMAIN data |->
          IF k \in DOMAIN data THEN data[k] ELSE fromQuestion(k)]

\* Questionaire.Show: register with the manager, send the current question with its keyboard
Show(s, q, err) ==
    LET idx == s.currentQuestionIndex[q]
        curQuestion == s.questions[q][idx + 1]
        id == NextMsgID(s, q)
        sel == IF curQuestion.QuestionFormat = QuestionFormatCheck
               THEN {d \in ChoiceData(curQuestion) : IsSelected(curQuestion, d)}
               ELSE {}
    IN [s EXCEPT
          !.conversations = IF manager[q] /\ chatID[q] \in Chats
                            THEN Add(@, chatID[q], q) ELSE @,
          !.questions[q][idx + 1].MsgID = id,
          !.msgIds[q] = Append(@, id),
          !.kbs = @ \cup {Keyboard(q, "step", idx, sel, id)},
          !.out = Append(@, Effect("Show", q, idx, err))]

\* Questionaire.sendNewAnswerSummary
sendNewAnswerSummary(s, q, questionIndex) ==
    LET id == NextMsgID(s, q)
    IN [s EXCEPT
          !.msgIds[q] = Append(@, id),
          !.kbs = @ \cup {Keyboard(q, "edit", questionIndex, {}, id)},
          !.out = Append(@, Effect("Summary", q, questionIndex, Itoa(questionIndex)))]

\* sendAnswerSummary, were it to leave out the questions whose message is gone
sendAnswerSummaryTextOnly(s, q, questionIndex) ==
    IF questionIndex < 0 \/ questionIndex >= Len(s.questions[q]) THEN s
    ELSE IF ~allowEditAnswers[q] THEN s
    ELSE LET question == s.questions[q][questionIndex + 1] IN
         IF question.QuestionFormat = QuestionFormatText /\ question.MsgID # 0
         THEN [s EXCEPT
                 !.kbs = {k \in @ : k.msg # question.MsgID}
                         \cup {Keyboard(q, "edit", questionIndex, {}, question.MsgID)},
                 !.out = Append(@, Effect("Summary", q, questionIndex, Itoa(questionIndex)))]
         ELSE s

\* sendAnswerSummary, were it to add the Edit button whatever allowEditAnswers says
sendAnswerSummaryAlways(s, q, questionIndex) ==
    IF questionIndex < 0 \/ questionIndex >= Len(s.questions[q]) THEN s
    ELSE LET question == s.questions[q][questionIndex + 1] IN
         IF question.QuestionFormat = QuestionFormatText /\ question.MsgID # 0
         THEN [s EXCEPT
                 !.kbs = {k \in @ : k.msg # question.MsgID}
                         \cup {Keyboard(q, "edit", questionIndex, {}, question.MsgID)},
                 !.out = Append(@, Effect("Summary", q, questionIndex, Itoa(questionIndex)))]
         ELSE sendNewAnswerSummary(s, q, questionIndex)

\* Questionaire.sendAnswerSummary (the bot client's calls succeed, so the text
\* question's message is edited in place)
sendAnswerSummary(s, q, questionIndex) ==
    IF questionIndex < 0 \/ questionIndex >= Len(s.questions[q]) THEN s
    ELSE IF ~allowEditAnswers[q] THEN s
    ELSE LET question == s.questions[q][questionIndex + 1] IN
         IF question.QuestionFormat = QuestionFormatText /\ question.MsgID # 0
         THEN [s EXCEPT
                 !.kbs = {k \in @ : k.msg # question.MsgID}
                         \cup {Keyboard(q, "edit", questionIndex, {}, question.MsgID)},
                 !.out = Append(@, Effect("Summary", q, questionIndex, Itoa(questionIndex)))]
         ELSE sendNewAnswerSummary(s, q, questionIndex)

\* the validator's error branch, were it to return without showing the question
AnswerRejectedSilently(s, q) ==
    [s EXCEPT !.ret = FALSE]

\* Answer, the validator returned an error: show the question again with the error
AnswerRejected(s, q) ==
    [Show(s, q, TRUE) EXCEPT !.ret = FALSE]

\* Answer's last lines, were the comparison of the return strict
AnswerFinishStrict(s, q) ==
    LET u == IF s.currentQuestionIndex[q] < Len(s.questions[q])
             THEN Show(s, q, FALSE) ELSE s
    IN [u EXCEPT !.ret = u.currentQuestionIndex[q] > Len(u.questions[q])]

\* Answer, its last lines: show the next question if there is one, report whether all
\* are answered
AnswerFinish(s, q) ==
    LET u == IF s.currentQuestionIndex[q] < Len(s.questions[q])
             THEN Show(s, q, FALSE) ELSE s
    IN [u EXCEPT !.ret = u.currentQuestionIndex[q] >= Len(u.questions[q])]

\* Questionaire.Answer; the caller guarantees currentQuestionIndex is in range
Answer(s, q, answer) ==
    LET previousQuestionIndex == s.currentQuestionIndex[q]
        curQuestion == s.questions[q][previousQuestionIndex + 1]
    IN IF curQuestion.QuestionFormat = QuestionFormatCheck /\ answer = CmdDone
       THEN AnswerFinish(
                sendAnswerSummary([s EXCEPT !.currentQuestionIndex[q] = @ + 1],
                                  q, previousQuestionIndex),
                q)
       ELSE IF curQuestion.QuestionFormat = QuestionFormatCheck /\ answer # CmdDone
       THEN IF Validate(curQuestion, answer) # "nil"
            THEN AnswerRejected(s, q)
            ELSE AnswerFinish(
                     [s EXCEPT !.questions[q][previousQuestionIndex + 1] =
                                  AddChoiceSelected(@, answer)],
                     q)
       ELSE IF Validate(curQuestion, answer) # "nil"
            THEN AnswerRejected(s, q)
            ELSE AnswerFinish(
                     sendAnswerSummary(
                         [s EXCEPT !.questions[q][previousQuestionIndex + 1] =
                                      SetAnswer(@, answer),
                                   !.currentQuestionIndex[q] = @ + 1],
                         q, previousQuestionIndex),
                     q)

\* Done, were it to delete the tracked messages whatever the handler returns
DoneDeletesAlways(s, q, handlerErr) ==
    IF ~onDoneHandler[q] THEN s
    ELSE LET called == [s EXCEPT !.out = Append(@, Effect("onDoneHandler", q, -1,
                                            GetAnswers(s.questions[q], InitialData[q])))]
             told == IF handlerErr
                     THEN [called EXCEPT !.out = Append(@, Effect("SendError", q, -1, TRUE))]
                     ELSE called
         IN [DeleteMessages(told, Range(s.msgIds[q])) EXCEPT
               !.out = Append(@, Effect("DeleteMessages", q, -1, s.msgIds[q]))]

\* Questionaire.Done; handlerErr is what the application's onDoneHandler returns
Done(s, q, handlerErr) ==
    IF ~onDoneHandler[q] THEN s
    ELSE LET called == [s EXCEPT !.out = Append(@, Effect("onDoneHandler", q, -1,
                                            GetAnswers(s.questions[q], InitialData[q])))]
         IN IF handlerErr
            THEN [called EXCEPT !.out = Append(@, Effect("SendError", q, -1, TRUE))]
            ELSE [DeleteMessages(called, Range(s.msgIds[q])) EXCEPT
                    !.out = Append(@, Effect("DeleteMessages", q, -1, s.msgIds[q]))]

\* onBack's loop, were it to leave the message ids
ClearAfterKeepsMsgID(qs, step) ==
    [i \in DOMAIN qs |->
        IF i - 1 > step
        THEN [qs[i] EXCEPT !.Answer = "", !.ChoicesSelected = <<>>]
        ELSE qs[i]]

\* onBack's loop, were it to clear the questions before step as well
ClearAfterAndBefore(qs, step) ==
    [i \in DOMAIN qs |->
        IF i - 1 # step
        THEN [qs[i] EXCEPT !.Answer = "", !.ChoicesSelected = <<>>, !.MsgID = 0]
        ELSE qs[i]]

\* onBack's loop over the questions: those after step lose answer, selections and
\* message id
ClearAfter(qs, step) ==
    [i \in DOMAIN qs |->
        IF i - 1 > step
        THEN [qs[i] EXCEPT !.Answer = "", !.ChoicesSelected = <<>>, !.MsgID = 0]
        ELSE qs[i]]

\* Questionaire.onBack for the Edit button of question step
onBack(s, q, step) ==
    IF step < 0 \/ step >= Len(s.questions[q]) THEN s
    ELSE LET later == {i \in 0..(Len(s.questions[q]) - 1) : i > step}
             t == [DeleteMessages(s, {s.questions[q][i + 1].MsgID : i \in later}) EXCEPT
                     !.questions[q] = ClearAfter(@, step),
                     !.currentQuestionIndex[q] = step]
         IN Show(t, q, FALSE)

\* Questionaire.onCancel
onCancel(s, q) ==
    IF onCancelHandler[q]
    THEN [DeleteMessages(s, Range(s.msgIds[q])) EXCEPT
            !.out = @ \o <<Effect("DeleteMessages", q, -1, s.msgIds[q]),
                            Effect("onCancelHandler", q, -1, TRUE)>>]
    ELSE s

\* the slice surgery of onInlineKeyboardUnSelect: drop the first occurrence of data
\* the removal, were it to take out every occurrence
RemoveEvery(seq, data) == SelectSeq(seq, LAMBDA x : x # data)

RemoveFirst(seq, data) ==
    IF \E i \in DOMAIN seq : seq[i] = data
    THEN LET i == CHOOSE k \in DOMAIN seq :
                     seq[k] = data /\ \A j \in 1..(k - 1) : seq[j] # data
         IN SubSeq(seq, 1, i - 1) \o SubSeq(seq, i + 1, Len(seq))
    ELSE seq

\* Questionaire.onInlineKeyboardUnSelect; the caller guarantees the index is in range
onInlineKeyboardUnSelect(s, q, data) ==
    LET idx == s.currentQuestionIndex[q]
        curQuestion == s.questions[q][idx + 1]
        t == IF curQuestion.QuestionFormat = QuestionFormatCheck
             THEN [s EXCEPT !.questions[q][idx + 1].ChoicesSelected = RemoveFirst(@, data)]
             ELSE s
    IN Show(t, q, FALSE)

(***************************************************************************)
(* Inline keyboards (keyboard/inline): a keyboard's handler stays          *)
(* registered until one of its buttons is tapped (deleteAfterClick), and   *)
(* its buttons are the ones Show / sendAnswerSummary put on it.            *)
(***************************************************************************)
Button(h, data) == [h |-> h, data |-> data]

Buttons(K) ==
    LET question == questions[K.q][K.step + 1]
        choiceButtons ==
            IF question.QuestionFormat = QuestionFormatRadio
            THEN {Button("onInlineKeyboardSelect", d) : d \in ChoiceData(question)}
            ELSE IF question.QuestionFormat = QuestionFormatCheck
            THEN {Button("onInlineKeyboardUnSelect", d) : d \in K.sel}
                 \cup {Button("onInlineKeyboardSelect", d) : d \in ChoiceData(question) \ K.sel}
                 \cup {Button("onDoneChoosing", CmdDone)}
            ELSE {}
        cancelButton ==
            IF onCancelHandler[K.q] THEN {Button("onCancel", "cmd_cancel")} ELSE {}
    IN IF K.kind = "edit"
       THEN {Button("onBack", Itoa(K.step))}
       ELSE choiceButtons \cup cancelButton

(***************************************************************************)
(* Initial state: the questionnaires as the builder calls left them        *)
(* (NewBuilder, AddQuestion / AddMultipleAnswerQuestion, Set...), none     *)
(* shown yet, and an empty Manager.                                        *)
(***************************************************************************)
NoData == [k \in {} |-> ""]

\* the frame of a goroutine that runs no method of the Manager
Idle == [op |-> "idle", chat |-> 0, q |-> NoQ, text |-> ""]

(***************************************************************************)
(* The StateManager of the UIBot.  UserStates maps a chat to its state; a  *)
(* chat without an entry has exists = FALSE.  A nil UIElement and a        *)
(* missing ContextData key are "nil".                                      *)
(***************************************************************************)
Elements == {"e1", "e2"}
ContextKeys == {"c1", "c2"}
NoUserState == [exists |-> FALSE, CurrentElement |-> "nil", PreviousElement |-> "nil",
                ContextData |-> [k \in ContextKeys |-> "nil"]]
NewUserState == [NoUserState EXCEPT !.exists = TRUE]
NewStateManager == [c \in Chats |-> NoUserState]

\* a method's outcome: the map it leaves and the value it returns
Outcome(sm, ret) == [UserStates |-> sm, ret |-> ret]

\* sm.SetState(chatID, state)
SetState(sm, c, state) == Outcome([sm EXCEPT ![c] = state], "none")

\* sm.GetState(chatID): the state, NoUserState for nil
GetState(sm, c) == Outcome(sm, sm[c])

\* sm.SetCurrentElement(chatID, element)
SetCurrentElement(sm, c, element) ==
    LET state == IF ~sm[c].exists THEN NewUserState ELSE sm[c]
    IN  Outcome([sm EXCEPT ![c] = [state EXCEPT !.PreviousElement = state.CurrentElement,
                                                !.CurrentElement = element]],
                "none")

\* a mistaken Back that keeps PreviousElement
BackKeepsPrevious(sm, c) ==
    IF ~sm[c].exists \/ sm[c].PreviousElement = "nil"
    THEN Outcome(sm, "false")
    ELSE Outcome([sm EXCEPT ![c].CurrentElement = sm[c].PreviousElement], "true")

\* sm.Back(chatID)
Back(sm, c) ==
    IF ~sm[c].exists \/ sm[c].PreviousElement = "nil"
    THEN Outcome(sm, "false")
    ELSE Outcome([sm EXCEPT ![c].CurrentElement = sm[c].PreviousElement,
                            ![c].PreviousElement = "nil"],
                 "true")

\* a mistaken Cancel that forgets the elements only
CancelKeepsContext(sm, c) ==
    Outcome([sm EXCEPT ![c].CurrentElement = "nil", ![c].PreviousElement = "nil"], "none")

\* sm.Cancel(chatID)
Cancel(sm, c) == Outcome([sm EXCEPT ![c] = NoUserState], "none")

\* sm.SetContextData(chatID, key, value)
SetContextData(sm, c, key, value) ==
    LET state == IF ~sm[c].exists THEN NewUserState ELSE sm[c]
    IN  Outcome([sm EXCEPT ![c] = [state EXCEPT !.ContextData[key] = value]], "none")

\* sm.GetContextData(chatID, key)
GetContextData(sm, c, key) ==
    IF ~sm[c].exists THEN Outcome(sm, "nil") ELSE Outcome(sm, sm[c].ContextData[key])

\* b.HandleBack(chatID): ret is the bool, element the second value it returns.  `state`
\* is a pointer, so state.PreviousElement is read from the map as Back left it.
HandleBack(sm, c) ==
    LET state == GetState(sm, c).ret
    IN  IF ~state.exists \/ state.PreviousElement = "nil"
        THEN [UserStates |-> sm, ret |-> "false", element |-> "nil"]
        ELSE LET success == Back(sm, c)
             IN  IF success.ret = "true"
                 THEN [UserStates |-> success.UserStates, ret |-> "true",
                       element |-> success.UserStates[c].PreviousElement]
                 ELSE [UserStates |-> success.UserStates, ret |-> "false",
                       element |-> "nil"]

(***************************************************************************)
(* The DataTableBuilder.  A pointer is "none" while the application has    *)
(* not assigned it, "nil", or "ok".  The field `with` is history: the      *)
(* With methods the application has called on the builder.                 *)
(***************************************************************************)
MaxPages == 8

ErrBot == "datatable: Bot instance is required"
ErrDataHandler == "datatable: DataHandler is required"
ErrItemsPerPage == "datatable: ItemsPerPage must be positive"

\* the entries of a filter map that page the table, and the value nil of an entry
Paging == {"pageSize", "pageNum"}
Nil == "nil"
\* the keys an application passes to WithFiltering, and the values a user types for them
FilterKeys == <<"f1", "f2">>
FilterValues == {"x"}
\* the filter maps without their paging entries
FilterMaps == UNION {[keys -> FilterValues] : keys \in SUBSET Range(FilterKeys)}
FilterOf(filter) ==
    [k \in {key \in DOMAIN filter \ Paging : filter[key] # Nil} |-> filter[k]]

\* a data handler, by the PagesCount it may report for a filter: any at all
AnyPages == [m \in FilterMaps |-> 0..MaxPages]

NoBuilder == [ptr |-> "none", bot |-> FALSE, itemsPerPage |-> 0, dataHandler |-> FALSE,
              filterKeys |-> <<>>, pages |-> AnyPages, with |-> {}]
NoFilter == [pageSize |-> 0, pageNum |-> 0]
NoDataTable == [ptr |-> "none", err |-> ""]

\* a method's outcome: the builder it leaves, or a nil pointer dereference
Returns(d) == [dtb |-> d, panic |-> FALSE]
NilDereference(d) == [dtb |-> d, panic |-> TRUE]

\* datatable.NewBuilder(b), b the bot or nil
NewBuilder(b) ==
    IF ~b
    THEN [NoBuilder EXCEPT !.ptr = "nil"]
    ELSE [ptr |-> "ok", bot |-> b, itemsPerPage |-> 5, dataHandler |-> FALSE,
          filterKeys |-> <<>>, pages |-> AnyPages, with |-> {}]

\* dtb.WithItemsPerPage(count)
WithItemsPerPage(d, count) ==
    IF count > 0
    THEN IF d.ptr = "nil"
         THEN NilDereference(d)
         ELSE Returns([d EXCEPT !.itemsPerPage = count,
                                !.with = @ \cup {"WithItemsPerPage"}])
    ELSE Returns([d EXCEPT !.with = IF d.ptr = "nil" THEN @ ELSE @ \cup {"WithItemsPerPage"}])

\* dtb.WithDataHandler(handler), handler a function or nil
WithDataHandler(d, handler) ==
    IF d.ptr = "nil"
    THEN NilDereference(d)
    ELSE Returns([d EXCEPT !.dataHandler = handler, !.with = @ \cup {"WithDataHandler"}])

\* dtb.WithFiltering(manager, keys)
WithFiltering(d, keys) ==
    IF d.ptr = "nil"
    THEN NilDereference(d)
    ELSE Returns([d EXCEPT !.filterKeys = keys, !.with = @ \cup {"WithFiltering"}])

\* a mistaken Build that does not look at the data handler
BuildWithoutDataHandler(d) ==
    IF d.ptr = "nil" THEN [dt |-> NoDataTable, currentFilter |-> NoFilter, panic |-> TRUE]
    ELSE IF ~d.bot
    THEN [dt |-> [ptr |-> "nil", err |-> ErrBot], currentFilter |-> NoFilter, panic |-> FALSE]
    ELSE [dt |-> [ptr |-> "ok", err |-> ""],
          currentFilter |-> [pageSize |-> d.itemsPerPage, pageNum |-> 1], panic |-> FALSE]

\* dtb.Build(): the DataTable and the error it returns, and the table's currentFilter
Build(d) ==
    IF d.ptr = "nil" THEN [dt |-> NoDataTable, currentFilter |-> NoFilter, panic |-> TRUE]
    ELSE IF ~d.bot
    THEN [dt |-> [ptr |-> "nil", err |-> ErrBot], currentFilter |-> NoFilter, panic |-> FALSE]
    ELSE IF ~d.dataHandler
    THEN [dt |-> [ptr |-> "nil", err |-> ErrDataHandler], currentFilter |-> NoFilter,
          panic |-> FALSE]
    ELSE IF d.itemsPerPage <= 0
    THEN [dt |-> [ptr |-> "nil", err |-> ErrItemsPerPage], currentFilter |-> NoFilter,
          panic |-> FALSE]
    ELSE [dt |-> [ptr |-> "ok", err |-> ""],
          currentFilter |-> [pageSize |-> d.itemsPerPage, pageNum |-> 1], panic |-> FALSE]

\* the application has made no builder and no table
NoTable ==
    /\ dtb = NoBuilder
    /\ dt = NoDataTable
    /\ currentFilter = NoFilter
    /\ pagesCount = 0
    /\ controls = <<>>
    /\ screen = {}

Built ==
    /\ UserStates = NewStateManager
    /\ questions \in {[q1 |-> ql, q2 |-> <<NewQuestion("k1", QuestionFormatText)>>] :
                         ql \in QuestionLists}
    /\ currentQuestionIndex = [q \in Qs |-> 0]
    /\ msgIds = [q \in Qs |-> <<>>]
    /\ onDoneHandler = [q1 |-> TRUE, q2 |-> FALSE]
    /\ onCancelHandler = [q1 |-> TRUE, q2 |-> FALSE]
    /\ allowEditAnswers \in {[q1 |-> b, q2 |-> TRUE] : b \in BOOLEAN}
    /\ InitialData = [q1 |-> [k \in {"k2", "src"} |-> "init"], q2 |-> NoData]
    /\ chatID \in {f \in [Qs -> Chats] : f["q1"] = 101}
    /\ manager = [q \in Qs |-> TRUE]
    /\ conversations = [c \in {} |-> NoQ]
    /\ kbs = {}
    /\ started = [q \in Qs |-> FALSE]
    /\ panicked = FALSE
    /\ kept = [q \in Qs |-> {}]
    /\ pc = [g \in Goroutines |-> "idle"]
    /\ frame = [g \in Goroutines |-> Idle]
    /\ mutex = [writer |-> NoQ, readers |-> {}]
    /\ calls = [g \in Goroutines |-> 0]
    /\ last = [op |-> "init", chat |-> 0, q |-> NoQ, arg |-> "", ret |-> "none", out |-> <<>>]
    /\ NoTable

\* one questionnaire, of any question formats
Init ==
    /\ Built
    /\ allowEditAnswers["q1"]
    /\ built = {"q1"}
    /\ chatID["q2"] = 102
    /\ budget = [q1 |-> MaxMsgs, q2 |-> MaxMsgsOther]

\* the first questionnaire asks two text questions and then a question of any format
TextFirst ==
    \A i \in 1..(Len(questions["q1"]) - 1) :
        questions["q1"][i].QuestionFormat = QuestionFormatText

\* the first questionnaire asks a question of any format and then two text questions
TextLast ==
    \A i \in 2..Len(questions["q1"]) :
        questions["q1"][i].QuestionFormat = QuestionFormatText

\* two questionnaires, in the same chat or in two chats
InitTwo ==
    /\ Built
    /\ allowEditAnswers["q1"]
    /\ built = Qs
    /\ TextLast
    /\ budget = [q1 |-> MaxMsgs - 1, q2 |-> MaxMsgsOther]

\* one questionnaire of two text questions and a question of any format, with one more
\* message to spend: enough to complete it and go back twice
InitBack ==
    /\ Built
    /\ allowEditAnswers["q1"]
    /\ built = {"q1"}
    /\ chatID["q2"] = 102
    /\ TextFirst
    /\ budget = [q1 |-> MaxMsgs + 1, q2 |-> MaxMsgsOther]

(***************************************************************************)
(* Actions: one per handler                                                *)
(***************************************************************************)
Returned(s) == IF s.ret THEN "true" ELSE "false"

\* the handler's writes become the next state
Commit(s, op, c, q, arg, ret) ==
    /\ \A r \in Qs : Len(s.msgIds[r]) <= budget[r]
    /\ questions' = s.questions
    /\ currentQuestionIndex' = s.currentQuestionIndex
    /\ msgIds' = s.msgIds
    /\ conversations' = s.conversations
    /\ kbs' = s.kbs
    /\ last' = [op |-> op, chat |-> c, q |-> q, arg |-> arg, ret |-> ret, out |-> s.out]
    /\ kept' = IF op = "onBack" /\ Atoi(arg) \in 0..(Len(questions[q]) - 1)
               THEN [kept EXCEPT ![q] = 0..(Atoi(arg) - 1)]
               ELSE kept
    /\ UNCHANGED <<config, table, UserStates, threads, started, panicked>>

\* q.questions[q.currentQuestionIndex] with the index out of range: the process dies
Panic(op, c, q, arg) ==
    /\ panicked' = TRUE
    /\ last' = [op |-> op, chat |-> c, q |-> q, arg |-> arg, ret |-> "panic", out |-> <<>>]
    /\ UNCHANGED <<questions, currentQuestionIndex, msgIds, conversations, kbs, config, table, UserStates,
                   threads, started, kept>>

InRange(q) == currentQuestionIndex[q] < Len(questions[q])

\* the application starts questionnaire q: q.Show(ctx, b, chatID)
Start(q) ==
    /\ ~panicked /\ q \in built /\ ~started[q]
    /\ started' = [started EXCEPT ![q] = TRUE]
    /\ LET s == Show(Here, q, FALSE) IN
         /\ Len(s.msgIds[q]) <= budget[q]
         /\ questions' = s.questions
         /\ currentQuestionIndex' = s.currentQuestionIndex
         /\ msgIds' = s.msgIds
         /\ conversations' = s.conversations
         /\ kbs' = s.kbs
         /\ last' = [op |-> "Show", chat |-> 0, q |-> q, arg |-> "", ret |-> "none", out |-> s.out]
    /\ UNCHANGED <<config, table, UserStates, threads, panicked, kept>>

\* HandleMessage returned at once: no message in the update, or no questionnaire for the chat
Ignored ==
    /\ last' = [op |-> "HandleMessage", chat |-> 0, q |-> NoQ, arg |-> "ignored",
                ret |-> "none", out |-> <<>>]
    /\ UNCHANGED <<questions, currentQuestionIndex, msgIds, conversations, kbs, config, table, UserStates,
                   threads, started, panicked, kept>>

\* Manager.HandleMessage for an update without a message
HandleNoMessage ==
    /\ ~panicked
    /\ Ignored

\* Manager.HandleMessage for the text message `text` of chat c
HandleMessage(c, text) ==
    /\ ~panicked
    /\ IF ~Exists(conversations, c)
       THEN Ignored
       ELSE LET q == Route(conversations, c) IN
            /\ IF ~InRange(q)
               THEN Panic("HandleMessage", c, q, text)
               ELSE \E handlerErr \in BOOLEAN :
                    \E a \in {Answer(Here, q, text)} :
                    \E d \in {IF a.ret
                              THEN [Done(a, q, handlerErr) EXCEPT
                                      !.conversations = Remove(@, c)]
                              ELSE a} :
                      Commit(d, "HandleMessage", c, q, text, Returned(a))

\* the keyboard callback: unregister the keyboard and delete its message, then run the handler
Tap(K) == [Here EXCEPT !.kbs = @ \ {K}]

ClickSelect ==
    \E K \in kbs : \E b \in Buttons(K) :
        /\ ~panicked
        /\ b.h = "onInlineKeyboardSelect"
        /\ IF ~InRange(K.q)
           THEN Panic(b.h, 0, K.q, b.data)
           ELSE \E handlerErr \in BOOLEAN :
                \E a \in {Answer(Tap(K), K.q, b.data)} :
                \E d \in {IF a.ret THEN Done(a, K.q, handlerErr) ELSE a} :
                  Commit(d, b.h, 0, K.q, b.data, Returned(a))

ClickDone ==
    \E K \in kbs : \E b \in Buttons(K) :
        /\ ~panicked
        /\ b.h = "onDoneChoosing"
        /\ IF ~InRange(K.q)
           THEN Panic(b.h, 0, K.q, b.data)
           ELSE \E handlerErr \in BOOLEAN :
                \E a \in {Answer(Tap(K), K.q, CmdDone)} :
                \E d \in {IF a.ret THEN Done(a, K.q, handlerErr) ELSE a} :
                  Commit(d, b.h, 0, K.q, b.data, Returned(a))

ClickUnSelect ==
    \E K \in kbs : \E b \in Buttons(K) :
        /\ ~panicked
        /\ b.h = "onInlineKeyboardUnSelect"
        /\ IF ~InRange(K.q)
           THEN Panic(b.h, 0, K.q, b.data)
           ELSE Commit(onInlineKeyboardUnSelect(Tap(K), K.q, b.data), b.h, 0, K.q, b.data, "none")

ClickBack ==
    \E K \in kbs : \E b \in Buttons(K) :
        /\ ~panicked
        /\ b.h = "onBack"
        /\ IF Atoi(b.data) = -1
           THEN Commit(Tap(K), b.h, 0, K.q, b.data, "none")
           ELSE Commit(onBack(Tap(K), K.q, Atoi(b.data)), b.h, 0, K.q, b.data, "none")

ClickCancel ==
    \E K \in kbs : \E b \in Buttons(K) :
        /\ ~panicked
        /\ b.h = "onCancel"
        /\ Commit(onCancel(Tap(K), K.q), b.h, 0, K.q, b.data, "none")

Next ==
    \/ \E q \in Qs : Start(q)
    \/ HandleNoMessage
    \/ \E c \in Senders, text \in Texts : HandleMessage(c, text)
    \/ ClickSelect
    \/ ClickDone
    \/ ClickUnSelect
    \/ ClickBack
    \/ ClickCancel

\* two questionnaires in two chats; the first one was built with
\* SetAllowEditAnswers(false) and asks a question of any format and then two text
\* questions
InitNoEdit ==
    /\ Built
    /\ ~allowEditAnswers["q1"]
    /\ built = Qs
    /\ chatID["q2"] = 102
    /\ TextLast
    /\ budget = [q1 |-> MaxMsgs - 1, q2 |-> MaxMsgsOther]

\* one questionnaire of a text, a radio and a checkbox question, with two more messages
\* to spend: enough to answer two questions, go back to the first and tap the Edit button
\* that the second one's summary still shows
InitJump ==
    /\ Built
    /\ allowEditAnswers["q1"]
    /\ built = {"q1"}
    /\ chatID["q2"] = 102
    /\ questions["q1"][1].QuestionFormat = QuestionFormatText
    /\ questions["q1"][2].QuestionFormat = QuestionFormatRadio
    /\ questions["q1"][3].QuestionFormat = QuestionFormatCheck
    /\ budget = [q1 |-> MaxMsgs + 2, q2 |-> MaxMsgsOther]

\* one questionnaire that asks a checkbox question and then two text questions, with one
\* more message to spend: enough for keyboards of the checkbox question that are out of date
InitSelect ==
    /\ Built
    /\ allowEditAnswers["q1"]
    /\ built = {"q1"}
    /\ chatID["q2"] = 102
    /\ questions["q1"][1].QuestionFormat = QuestionFormatCheck
    /\ TextLast
    /\ budget = [q1 |-> MaxMsgs + 1, q2 |-> MaxMsgsOther]

SpecSelect == InitSelect /\ [][Next]_vars

Spec == Init /\ [][Next]_vars

(***************************************************************************)
(* The builder: NewBuilder gives a questionnaire without questions, and    *)
(* AddQuestion and AddMultipleAnswerQuestion append one question each.     *)
(* The choices argument is a Go slice: nil, or a list of button rows that  *)
(* may be empty.                                                           *)
(***************************************************************************)
NilChoices == [nil |-> TRUE, rows |-> <<>>]
ChoicesArgs == {NilChoices, [nil |-> FALSE, rows |-> <<>>], [nil |-> FALSE, rows |-> ChoiceRows]}

\* the Question struct AddQuestion builds
AddQuestion(key, choices, validateFunc) ==
    [Key |-> key,
     QuestionFormat |-> IF choices.nil THEN QuestionFormatText ELSE QuestionFormatRadio,
     Choices |-> choices.rows,
     ChoicesSelected |-> <<>>,
     Answer |-> "",
     validator |-> validateFunc,
     MsgID |-> 0]

\* the Question struct AddMultipleAnswerQuestion builds
AddMultipleAnswerQuestion(key, choices, validateFunc) ==
    [Key |-> key,
     QuestionFormat |-> QuestionFormatCheck,
     Choices |-> choices.rows,
     ChoicesSelected |-> <<>>,
     Answer |-> "",
     validator |-> validateFunc,
     MsgID |-> 0]

\* NewBuilder(chatID, manager)
NoQuestions ==
    /\ UserStates = NewStateManager
    /\ questions = [q \in Qs |-> <<>>]
    /\ currentQuestionIndex = [q \in Qs |-> 0]
    /\ msgIds = [q \in Qs |-> <<>>]
    /\ onDoneHandler = [q \in Qs |-> FALSE]
    /\ onCancelHandler = [q \in Qs |-> FALSE]
    /\ allowEditAnswers = [q \in Qs |-> TRUE]
    /\ InitialData = [q \in Qs |-> NoData]
    /\ chatID = [q1 |-> 101, q2 |-> 102]
    /\ manager = [q \in Qs |-> TRUE]
    /\ conversations = [c \in {} |-> NoQ]
    /\ kbs = {}
    /\ built = {}
    /\ started = [q \in Qs |-> FALSE]
    /\ panicked = FALSE
    /\ budget = [q \in Qs |-> 0]
    /\ kept = [q \in Qs |-> {}]
    /\ pc = [g \in Goroutines |-> "idle"]
    /\ frame = [g \in Goroutines |-> Idle]
    /\ mutex = [writer |-> NoQ, readers |-> {}]
    /\ calls = [g \in Goroutines |-> 0]
    /\ last = [op |-> "NewBuilder", chat |-> 0, q |-> NoQ, arg |-> NilChoices,
               ret |-> "none", out |-> <<>>]

InitBuild == NoQuestions /\ NoTable

\* the builder call appended `question` to the questions of q
Appended(op, q, choices, question) ==
    /\ Len(questions[q]) < Len(Keys)
    /\ questions' = [questions EXCEPT ![q] = Append(@, question)]
    /\ last' = [op |-> op, chat |-> 0, q |-> q, arg |-> choices, ret |-> "none",
                out |-> <<>>]
    /\ UNCHANGED <<currentQuestionIndex, msgIds, conversations, kbs, config, table, UserStates, threads,
                   started, panicked, kept>>

\* q.AddQuestion(key, text, choices, validateFunc)
CallAddQuestion ==
    \E choices \in ChoicesArgs, validateFunc \in BOOLEAN :
        Appended("AddQuestion", "q1", choices,
                 AddQuestion(Keys[Len(questions["q1"]) + 1], choices, validateFunc))

\* q.AddMultipleAnswerQuestion(key, text, choices, validateFunc)
CallAddMultipleAnswerQuestion ==
    \E choices \in ChoicesArgs, validateFunc \in BOOLEAN :
        Appended("AddMultipleAnswerQuestion", "q1", choices,
                 AddMultipleAnswerQuestion(Keys[Len(questions["q1"]) + 1], choices,
                                           validateFunc))

NextBuild ==
    \/ CallAddQuestion
    \/ CallAddMultipleAnswerQuestion

SpecBuild == InitBuild /\ [][NextBuild]_vars

(***************************************************************************)
(* The application builds one checkbox question, with any layout of the    *)
(* choice buttons, and calls the question's methods: it selects up to      *)
(* MaxSelected answers and asks for the selected and the unselected        *)
(* choices.                                                                *)
(***************************************************************************)
MaxSelected == 2

ChoiceLayouts ==
    {<<>>, <<<<"a">>>>, <<<<"a", "b">>, <<"c">>>>, <<<<"a">>, <<"b">>, <<"c">>>>,
     <<<<"a", "b", "a">>, <<"b">>>>, <<<<"a", "b">>, <<>>, <<"c">>>>}

CallAddChoices ==
    \E rows \in ChoiceLayouts :
        /\ questions["q1"] = <<>>
        /\ Appended("AddMultipleAnswerQuestion", "q1", [nil |-> FALSE, rows |-> rows],
                    AddMultipleAnswerQuestion(Keys[1], [nil |-> FALSE, rows |-> rows], FALSE))

\* a call of a method of the question; it leaves the question `question` and returns ret
QuestionCall(op, arg, question, ret) ==
    /\ questions' = [questions EXCEPT !["q1"][1] = question]
    /\ last' = [op |-> op, chat |-> 0, q |-> "q1", arg |-> arg, ret |-> "none", out |-> ret]
    /\ UNCHANGED <<currentQuestionIndex, msgIds, conversations, kbs, config, table,
                   UserStates, threads, started, panicked, kept>>

CallAddChoiceSelected ==
    \E answer \in {"a", "b", "c", "zz"} :
        /\ questions["q1"] # <<>>
        /\ Len(questions["q1"][1].ChoicesSelected) < MaxSelected
        /\ QuestionCall("AddChoiceSelected", answer,
                        AddChoiceSelected(questions["q1"][1], answer), <<>>)

CallGetSelectedChoices ==
    /\ questions["q1"] # <<>>
    /\ QuestionCall("GetSelectedChoices", "", questions["q1"][1],
                    GetSelectedChoices(questions["q1"][1]))

CallGetUnselectedChoices ==
    /\ questions["q1"] # <<>>
    /\ QuestionCall("GetUnselectedChoices", "", questions["q1"][1],
                    GetUnselectedChoices(questions["q1"][1]))

NextChoices ==
    \/ CallAddChoices
    \/ CallAddChoiceSelected
    \/ CallGetSelectedChoices
    \/ CallGetUnselectedChoices

SpecChoices == InitBuild /\ [][NextChoices]_vars

(***************************************************************************)
(* The DataTable's pagination.  Show asks the data handler for the page    *)
(* and for the number of pages, and rebuildControls renders the pagination *)
(* row; the buttons of that row come back through nagivateCallback.  The   *)
(* emoji of the button texts are written in ASCII.                         *)
(***************************************************************************)
NEXT == "->"
BACK == "<-"
cbCmdBack == "back"
cbCmdNext == "next"
cbPfxSetPage == "setpage_"
\* fmt.Sprintf(LASTPAGE, n) and fmt.Sprintf(FIRSTPAGE, n)
LASTPAGE(n) == Itoa(n) \o " >|"
FIRSTPAGE(n) == Itoa(n) \o " |< "

\* the DataTable d as a record of the fields the pagination reads
Table == [currentFilter |-> currentFilter, pagesCount |-> pagesCount]

\* a button of the keyboard: its text and its callback data (without d.prefix)
NavButton(text, data) == [text |-> text, data |-> data]
CtrlBack == NavButton(BACK, cbCmdBack)
CtrlNext == NavButton(NEXT, cbCmdNext)

\* a mistaken calcStartPage: the numbered buttons always start at page 1
calcStartPageFirst(d) == 1

calcStartPage(d) ==
    IF d.pagesCount < 5 THEN 1
    ELSE IF d.currentFilter.pageNum < 3 THEN 1
    ELSE IF d.currentFilter.pageNum >= d.pagesCount - 2 THEN d.pagesCount - 4
    ELSE d.currentFilter.pageNum - 2

\* the numbered button of page i
PageButton(i, currentPage) ==
    NavButton(IF i = currentPage THEN "( " \o Itoa(i) \o " )" ELSE Itoa(i),
              cbPfxSetPage \o Itoa(i))

\* for i := startPage; i < startPage+5 && i <= d.pagesCount; i++
PageButtons(d, startPage, currentPage) ==
    LET stop == IF startPage + 5 - 1 < d.pagesCount THEN startPage + 5 - 1 ELSE d.pagesCount
    IN  [k \in 1..(stop - startPage + 1) |-> PageButton(startPage + k - 1, currentPage)]

\* a mistaken lastVisible, one page short
lastVisibleShort(startPage) == startPage + 5 - 2

lastVisible(startPage) == startPage + 5 - 1

\* the pagination row rebuildControls adds to the keyboard
rebuildControls(d) ==
    LET currentPage == d.currentFilter.pageNum
        startPage == calcStartPage(d)
    IN  IF d.pagesCount > 1
        THEN (IF startPage > 1
              THEN <<NavButton(FIRSTPAGE(1), cbPfxSetPage \o Itoa(1))>>
              ELSE <<>>)
             \o (IF currentPage > 1 THEN <<CtrlBack>> ELSE <<>>)
             \o PageButtons(d, startPage, currentPage)
             \o (IF currentPage < d.pagesCount
                 THEN <<CtrlNext>>
                      \o (IF lastVisible(startPage) < d.pagesCount
                          THEN <<NavButton(LASTPAGE(d.pagesCount),
                                           cbPfxSetPage \o Itoa(d.pagesCount))>>
                          ELSE <<>>)
                 ELSE <<>>)
        ELSE <<>>

\* strings.HasPrefix and strings.TrimPrefix
HasPrefix(str, prefix) ==
    Len(str) >= Len(prefix) /\ SubSeq(str, 1, Len(prefix)) = prefix
TrimPrefix(str, prefix) ==
    IF HasPrefix(str, prefix) THEN SubSeq(str, Len(prefix) + 1, Len(str)) ELSE str

FILTER == "Filter"
CANCEL == "<- Cancel"
cbCmdFilter == "filter"
cbPfxSelectFilterKey == "filter_"
cbPfxRemoveFilter == "remove_filter_"
cbCmdCancelFilterMenu == "filter_cancel"
CtrlFilter == NavButton(FILTER, cbCmdFilter)

\* nagivateCallback, were it to take the next command for the back command
nagivateCallbackBackOnly(command) ==
    IF command \in {cbCmdNext, cbCmdBack} THEN "handlePreviousPage"
    ELSE IF command = cbCmdFilter THEN "handleShowFilterMenu"
    ELSE IF command = cbCmdCancelFilterMenu THEN "handleFilterCancel"
    ELSE IF HasPrefix(command, cbPfxSelectFilterKey) THEN "handleStartFilterQuestionnaire"
    ELSE IF HasPrefix(command, cbPfxSetPage) THEN "handleSetPage"
    ELSE IF HasPrefix(command, cbPfxRemoveFilter) THEN "handleRemoveFilter"
    ELSE "none"

\* the handler nagivateCallback runs for a button's callback data (without d.prefix)
nagivateCallback(command) ==
    IF command = cbCmdNext THEN "handleNextPage"
    ELSE IF command = cbCmdBack THEN "handlePreviousPage"
    ELSE IF command = cbCmdFilter THEN "handleShowFilterMenu"
    ELSE IF command = cbCmdCancelFilterMenu THEN "handleFilterCancel"
    ELSE IF HasPrefix(command, cbPfxSelectFilterKey) THEN "handleStartFilterQuestionnaire"
    ELSE IF HasPrefix(command, cbPfxSetPage) THEN "handleSetPage"
    ELSE IF HasPrefix(command, cbPfxRemoveFilter) THEN "handleRemoveFilter"
    ELSE "none"

\* d.currentFilter[key] != nil, for a key that is no paging entry
IsSet(filter, key) == key \in DOMAIN filter /\ filter[key] # Nil

\* saveFilter, were it to keep the entries whose value is nil
saveFilterKeepsNil(filterInput) == filterInput

\* saveFilter(d.currentFilter): the entries whose value is nil are deleted
saveFilter(filterInput) ==
    [k \in {key \in DOMAIN filterInput : key \in Paging \/ filterInput[key] # Nil}
        |-> filterInput[k]]

\* updateFilter(key, value)
updateFilter(filter, key, value) == (key :> value) @@ filter

\* the orders in which a range over a map can visit the keys S
Orders(S) ==
    {seq \in [1..Cardinality(S) -> S] : \A i, j \in DOMAIN seq : seq[i] = seq[j] => i = j}

\* the button that removes the filter of key
RemoveButton(d, key) ==
    NavButton("del " \o key \o ": " \o d.currentFilter[key], cbPfxRemoveFilter \o key)

\* rebuildControls below the pagination row: the Filter button, and for every filter that
\* is set a button that removes it, in the order the range over the map visits them
filterControls(d) ==
    LET set == {k \in Range(d.filterKeys) : IsSet(d.currentFilter, k)}
    IN  {(IF Len(d.filterKeys) > 0 THEN <<CtrlFilter>> ELSE <<>>)
             \o [i \in DOMAIN order |-> RemoveButton(d, order[i])] :
         order \in Orders(set)}

\* the keyboard of the filter menu: a button for every filter key, and Cancel
filterButtons(d) ==
    [i \in DOMAIN d.filterKeys |->
        LET filterKey == d.filterKeys[i]
        IN  NavButton(IF IsSet(d.currentFilter, filterKey)
                      THEN filterKey \o ": " \o d.currentFilter[filterKey]
                      ELSE filterKey,
                      cbPfxSelectFilterKey \o filterKey)]
    \o <<NavButton(CANCEL, cbCmdCancelFilterMenu)>>

\* d.Show(ctx, b, chatID, filterInput) after the tap on a button of the keyboards K took
\* them off the screen: save the filter, ask the data handler for the page and for the
\* number of pages, rebuild the controls and send them
Render(op, K, filterInput, data) ==
    /\ dt.ptr = "ok"
    /\ ~panicked
    /\ currentFilter' = saveFilter(filterInput)
    /\ pagesCount' \in dtb.pages[FilterOf(currentFilter')]
    /\ \E rows \in filterControls([currentFilter |-> currentFilter',
                                   filterKeys |-> dtb.filterKeys]) :
          controls' = rebuildControls([currentFilter |-> currentFilter',
                                       pagesCount |-> pagesCount']) \o rows
    /\ screen' = (screen \ K) \cup {controls'}
    /\ last' = [op |-> op, chat |-> 0, q |-> NoQ, arg |-> data, ret |-> "none",
                out |-> <<[e |-> "dataHandler", pageSize |-> currentFilter'.pageSize,
                           pageNum |-> currentFilter'.pageNum,
                           filter |-> currentFilter']>>]
    /\ UNCHANGED <<dtb, dt>>

\* a handler of the table that shows it and touches no questionnaire
TableShow(op, K, filterInput, data) ==
    /\ Render(op, K, filterInput, data)
    /\ UNCHANGED <<questions, currentQuestionIndex, msgIds, conversations, kbs, config,
                   threads, started, panicked, kept, UserStates>>

\* a handler of the table that does not show it: it sends the keyboards `sent`, if any
TableKept(op, K, sent, data, out) ==
    /\ dt.ptr = "ok"
    /\ ~panicked
    /\ screen' = (screen \ K) \cup sent
    /\ last' = [op |-> op, chat |-> 0, q |-> NoQ, arg |-> data, ret |-> "none",
                out |-> out]
    /\ UNCHANGED <<currentFilter, pagesCount, controls, dtb, dt, threads, panicked, kept,
                   UserStates>>

\* the application shows the table, with the filter it has, when no keyboard of the
\* table is on screen
ShowTable ==
    /\ screen = {}
    /\ TableShow("Show", {}, currentFilter, "")

\* a tap on a Next button on screen
handleNextPage ==
    \E K \in screen : \E b \in Range(K) :
        /\ nagivateCallback(b.data) = "handleNextPage"
        /\ TableShow("handleNextPage", {K},
                     [currentFilter EXCEPT !.pageNum = currentFilter.pageNum + 1], b.data)

\* a tap on a Back button on screen
handlePreviousPage ==
    \E K \in screen : \E b \in Range(K) :
        /\ nagivateCallback(b.data) = "handlePreviousPage"
        /\ IF currentFilter.pageNum > 1
           THEN TableShow("handlePreviousPage", {K},
                          [currentFilter EXCEPT !.pageNum = currentFilter.pageNum - 1],
                          b.data)
           ELSE /\ TableKept("handlePreviousPage", {K}, {}, b.data, <<>>)
                /\ UNCHANGED <<questions, currentQuestionIndex, msgIds, conversations, kbs,
                               config, started>>

\* a tap on a numbered button or on a first-page or last-page shortcut
handleSetPage ==
    \E K \in screen : \E b \in Range(K) :
        /\ nagivateCallback(b.data) = "handleSetPage"
        /\ Atoi(TrimPrefix(b.data, cbPfxSetPage)) # -1
        /\ TableShow("handleSetPage", {K},
                     [currentFilter EXCEPT !.pageNum = Atoi(TrimPrefix(b.data, cbPfxSetPage))],
                     b.data)

NextTable ==
    \/ ShowTable
    \/ handleNextPage
    \/ handlePreviousPage
    \/ handleSetPage

\* the table that NewBuilder(bot).WithDataHandler(handler).Build() returns
InitTable ==
    /\ NoQuestions
    /\ dtb = WithDataHandler(NewBuilder(TRUE), TRUE).dtb
    /\ dt = Build(dtb).dt
    /\ currentFilter = Build(dtb).currentFilter
    /\ pagesCount = 0
    /\ controls = <<>>
    /\ screen = {}

SpecTable == InitTable /\ [][NextTable]_vars

(***************************************************************************)
(* The application builds a table: one NewBuilder, any With calls, one     *)
(* Build, and then it shows the table it got.                              *)
(***************************************************************************)
ItemCounts == {-1, 0, 3, 10}

\* a call of the builder that leaves the outcome r
BuilderCall(op, arg, r) ==
    /\ ~panicked
    /\ dt.ptr = "none"
    /\ dtb' = r.dtb
    /\ panicked' = r.panic
    /\ last' = [op |-> op, chat |-> 0, q |-> NoQ, arg |-> arg,
                ret |-> IF r.panic THEN "panic" ELSE "none", out |-> <<>>]
    /\ UNCHANGED <<questions, currentQuestionIndex, msgIds, conversations, kbs, config,
                   threads, started, kept, currentFilter, pagesCount, controls, screen, dt,
                   UserStates>>

CallNewBuilder ==
    \E b \in BOOLEAN :
        /\ dtb.ptr = "none"
        /\ BuilderCall("NewBuilder", b, Returns(NewBuilder(b)))

CallWithItemsPerPage ==
    \E count \in ItemCounts :
        /\ dtb.ptr # "none"
        /\ BuilderCall("WithItemsPerPage", count, WithItemsPerPage(dtb, count))

CallWithDataHandler ==
    \E handler \in BOOLEAN :
        /\ dtb.ptr # "none"
        /\ BuilderCall("WithDataHandler", handler, WithDataHandler(dtb, handler))

CallBuild ==
    /\ ~panicked
    /\ dtb.ptr # "none"
    /\ dt.ptr = "none"
    /\ \E r \in {Build(dtb)} :
        /\ dt' = r.dt
        /\ currentFilter' = r.currentFilter
        /\ panicked' = r.panic
        /\ last' = [op |-> "Build", chat |-> 0, q |-> NoQ, arg |-> "",
                    ret |-> IF r.panic THEN "panic" ELSE r.dt.err, out |-> <<>>]
    /\ UNCHANGED <<questions, currentQuestionIndex, msgIds, conversations, kbs, config,
                   threads, started, kept, pagesCount, controls, screen, dtb, UserStates>>

NextDataTableBuilder ==
    \/ CallNewBuilder
    \/ CallWithItemsPerPage
    \/ CallWithDataHandler
    \/ CallBuild
    \/ ShowTable
    \/ handleNextPage
    \/ handlePreviousPage
    \/ handleSetPage

SpecDataTableBuilder == InitBuild /\ [][NextDataTableBuilder]_vars

(***************************************************************************)
(* The DataTable's filters.  The Filter button opens a menu of the filter  *)
(* keys; a key of the menu starts a questionnaire of one text question in  *)
(* the table's chat, and the questionnaire's onDoneHandler stores the      *)
(* answer as the filter of the key and shows the table.  The questionnaire *)
(* is "q2".                                                                *)
(***************************************************************************)
MaxFilterPages == 3

\* a tap on the Filter button: the menu is sent
handleShowFilterMenu ==
    \E K \in screen : \E b \in Range(K) :
        /\ nagivateCallback(b.data) = "handleShowFilterMenu"
        /\ TableKept("handleShowFilterMenu", {K},
                     {filterButtons([currentFilter |-> currentFilter,
                                     filterKeys |-> dtb.filterKeys])},
                     b.data, <<[e |-> "SendMessage"]>>)
        /\ UNCHANGED <<questions, currentQuestionIndex, msgIds, conversations, kbs,
                       config, started>>

\* a tap on the Cancel button of the menu
handleFilterCancel ==
    \E K \in screen : \E b \in Range(K) :
        /\ nagivateCallback(b.data) = "handleFilterCancel"
        /\ TableShow("handleFilterCancel", {K}, currentFilter, b.data)

\* a tap on a key of the menu: the questionnaire is built and shown
handleStartFilterQuestionnaire ==
    \E K \in screen : \E b \in Range(K) :
        /\ nagivateCallback(b.data) = "handleStartFilterQuestionnaire"
        /\ LET filterKey == TrimPrefix(b.data, cbPfxSelectFilterKey)
               new == [Here EXCEPT
                         !.questions["q2"] = <<AddQuestion(filterKey, NilChoices, FALSE)>>,
                         !.currentQuestionIndex["q2"] = 0,
                         !.msgIds["q2"] = <<>>]
           IN  \E s \in {Show(new, "q2", FALSE)} :
                 /\ TableKept("handleStartFilterQuestionnaire", {K}, {}, b.data, s.out)
                 /\ questions' = s.questions
                 /\ currentQuestionIndex' = s.currentQuestionIndex
                 /\ msgIds' = s.msgIds
                 /\ conversations' = s.conversations
                 /\ kbs' = s.kbs
        /\ onDoneHandler' = [onDoneHandler EXCEPT !["q2"] = TRUE]
        /\ allowEditAnswers' = [allowEditAnswers EXCEPT !["q2"] = FALSE]
        /\ built' = built \cup {"q2"}
        /\ started' = [started EXCEPT !["q2"] = TRUE]
        /\ UNCHANGED <<onCancelHandler, InitialData, chatID, manager, budget>>

\* the user answers the questionnaire: HandleMessage, Answer, and Done with the
\* onDoneHandler `fun` of handleStartFilterQuestionnaire
fun ==
    \E text \in FilterValues :
        /\ Exists(conversations, chatID["q2"])
        /\ Route(conversations, chatID["q2"]) = "q2"
        /\ onDoneHandler["q2"]
        /\ InRange("q2")
        /\ \E a \in {Answer(Here, "q2", text)} :
           \E d \in {[Done(a, "q2", FALSE) EXCEPT !.conversations = Remove(@, chatID["q2"])]} :
             LET result == GetAnswers(a.questions["q2"], InitialData["q2"])
                 filterKey == questions["q2"][1].Key
             IN  /\ a.ret
                 /\ Render("fun", {},
                           updateFilter([currentFilter EXCEPT !.pageNum = 1],
                                        filterKey, result[filterKey]),
                           filterKey)
                 /\ questions' = d.questions
                 /\ currentQuestionIndex' = d.currentQuestionIndex
                 /\ msgIds' = d.msgIds
                 /\ conversations' = d.conversations
                 /\ kbs' = d.kbs
        /\ UNCHANGED <<config, threads, started, panicked, kept, UserStates>>

\* a tap on the button that removes a filter
handleRemoveFilter ==
    \E K \in screen : \E b \in Range(K) :
        /\ nagivateCallback(b.data) = "handleRemoveFilter"
        /\ TableShow("handleRemoveFilter", {K},
                     updateFilter(currentFilter, TrimPrefix(b.data, cbPfxRemoveFilter), Nil),
                     b.data)

NextFilter ==
    \/ ShowTable
    \/ handleNextPage
    \/ handlePreviousPage
    \/ handleSetPage
    \/ handleShowFilterMenu
    \/ handleFilterCancel
    \/ handleStartFilterQuestionnaire
    \/ fun
    \/ handleRemoveFilter

\* NewBuilder(bot).WithDataHandler(handler).WithFiltering(manager, keys).Build(), with a
\* data handler that reports the page counts `pages`
Filtering(pages) ==
    /\ NoQuestions
    /\ dtb = [WithFiltering(WithDataHandler(NewBuilder(TRUE), TRUE).dtb, FilterKeys).dtb
                EXCEPT !.pages = pages]
    /\ dt = Build(dtb).dt
    /\ currentFilter = Build(dtb).currentFilter
    /\ pagesCount = 0
    /\ controls = <<>>
    /\ screen = {}

\* a data handler that may report any number of pages up to MaxFilterPages
InitFilter == Filtering([m \in FilterMaps |-> 0..MaxFilterPages])

SpecFilter == InitFilter /\ [][NextFilter]_vars

\* a data handler that reports the same number of pages, one at least, for a filter
InitSteady ==
    \E h \in [FilterMaps -> 1..MaxFilterPages] : Filtering([m \in FilterMaps |-> {h[m]}])

SpecSteady == InitSteady /\ [][NextFilter]_vars

(***************************************************************************)
(* The application and the handlers of a UIBot call its StateManager.      *)
(***************************************************************************)
\* a call for chat c, with the argument arg, leaves the outcome r
StateCall(op, c, arg, r, element) ==
    /\ UserStates' = r.UserStates
    /\ last' = [op |-> op, chat |-> c, q |-> NoQ, arg |-> arg, ret |-> r.ret,
                out |-> element]
    /\ UNCHANGED <<questions, currentQuestionIndex, msgIds, conversations, kbs, config,
                   table, threads, started, panicked, kept>>

CallSetState ==
    \E c \in Chats, e \in Elements :
        \E state \in {NewUserState, [NewUserState EXCEPT !.PreviousElement = e]} :
            StateCall("SetState", c, e, SetState(UserStates, c, state), <<>>)

CallSetCurrentElement ==
    \E c \in Chats, element \in Elements \cup {"nil"} :
        StateCall("SetCurrentElement", c, element,
                  SetCurrentElement(UserStates, c, element), <<>>)

CallBack ==
    \E c \in Chats : StateCall("Back", c, "", Back(UserStates, c), <<>>)

CallCancel ==
    \E c \in Chats : StateCall("Cancel", c, "", Cancel(UserStates, c), <<>>)

CallSetContextData ==
    \E c \in Chats, key \in ContextKeys :
        StateCall("SetContextData", c, key, SetContextData(UserStates, c, key, "v1"), <<>>)

CallHandleBack ==
    \E c \in Chats :
        \E r \in {HandleBack(UserStates, c)} :
            StateCall("HandleBack", c, "", r, <<r.element>>)

NextStates ==
    \/ CallSetState
    \/ CallSetCurrentElement
    \/ CallBack
    \/ CallCancel
    \/ CallSetContextData
    \/ CallHandleBack

SpecStates == InitBuild /\ [][NextStates]_vars

SpecJump == InitJump /\ [][Next]_vars

SpecNoEdit == InitNoEdit /\ [][Next]_vars

SpecTwo == InitTwo /\ [][Next]_vars

SpecBack == InitBack /\ [][Next]_vars

(***************************************************************************)
(* The Manager under concurrent callers: the bot library runs every        *)
(* handler in a goroutine of its own, so the methods of the Manager        *)
(* interleave line by line.  A goroutine's pc names the line it is about   *)
(* to execute: Lock / RLock / Unlock / RUnlock for the mutex calls,        *)
(* "write" and "read" for the map accesses of Add, Remove, Get and         *)
(* Exists, and hm94 .. hm115 for the lines of HandleMessage.               *)
(***************************************************************************)
\* two questionnaires of text questions in two chats, registered by the goroutines
InitConc ==
    /\ Built
    /\ allowEditAnswers["q1"]
    /\ built = Qs
    /\ chatID["q2"] = 102
    /\ \A i \in DOMAIN questions["q1"] : questions["q1"][i].QuestionFormat = QuestionFormatText
    /\ budget = [q1 |-> MaxCalls, q2 |-> MaxCalls]

\* the goroutine holds the mutex
HoldsWrite(g) == mutex.writer = g
HoldsRead(g) == g \in mutex.readers
MutexFree == mutex.writer = NoQ /\ mutex.readers = {}

\* the first line of each method
Entry(op) ==
    CASE op \in {"Add", "Remove"} -> "Lock"
      [] op \in {"Get", "Exists"} -> "RLock"
      [] op = "HandleMessage" -> "hm94"

\* a goroutine enters a method of the Manager
Call(g) ==
    /\ ~panicked /\ pc[g] = "idle" /\ calls[g] < MaxCalls
    /\ \E op \in {"Add", "Remove", "Get", "Exists", "HandleMessage"}, c \in Chats :
         \E q \in (IF op = "Add" THEN {r \in Qs : chatID[r] = c} ELSE {NoQ}) :
            /\ frame' = [frame EXCEPT ![g] = [op |-> op, chat |-> c, q |-> q, text |-> "zz"]]
            /\ pc' = [pc EXCEPT ![g] = Entry(op)]
    /\ calls' = [calls EXCEPT ![g] = @ + 1]
    /\ UNCHANGED <<questions, currentQuestionIndex, msgIds, conversations, kbs, config, table, UserStates,
                   mutex, started, panicked, kept, last>>

\* m.mutex.Lock()
Lock(g) ==
    /\ ~panicked /\ pc[g] = "Lock" /\ MutexFree
    /\ mutex' = [mutex EXCEPT !.writer = g]
    /\ pc' = [pc EXCEPT ![g] = "write"]
    /\ UNCHANGED <<questions, currentQuestionIndex, msgIds, conversations, kbs, config, table, UserStates,
                   frame, calls, started, panicked, kept, last>>

\* m.mutex.RLock()
RLock(g) ==
    /\ ~panicked /\ pc[g] = "RLock" /\ mutex.writer = NoQ
    /\ mutex' = [mutex EXCEPT !.readers = @ \cup {g}]
    /\ pc' = [pc EXCEPT ![g] = "read"]
    /\ UNCHANGED <<questions, currentQuestionIndex, msgIds, conversations, kbs, config, table, UserStates,
                   frame, calls, started, panicked, kept, last>>

\* the map the goroutine's write leaves: m.conversations[chatID] = q, or delete
Written(g) ==
    IF frame[g].op = "Add"
    THEN Add(conversations, frame[g].chat, frame[g].q)
    ELSE Remove(conversations, frame[g].chat)

\* Add's and Remove's access to the map
MapWrite(g) ==
    /\ ~panicked /\ pc[g] = "write"
    /\ conversations' = Written(g)
    /\ pc' = [pc EXCEPT ![g] = "Unlock"]
    /\ UNCHANGED <<questions, currentQuestionIndex, msgIds, kbs, config, table, UserStates,
                   frame, mutex, calls, started, panicked, kept, last>>

\* Get's and Exists' access to the map
MapRead(g) ==
    /\ ~panicked /\ pc[g] = "read"
    /\ frame' = [frame EXCEPT ![g].q = Get(conversations, frame[g].chat)]
    /\ pc' = [pc EXCEPT ![g] = "RUnlock"]
    /\ UNCHANGED <<questions, currentQuestionIndex, msgIds, conversations, kbs, config, table, UserStates,
                   mutex, calls, started, panicked, kept, last>>

\* the deferred m.mutex.Unlock(); Remove called by HandleMessage returns to its line 114
Unlock(g) ==
    /\ ~panicked /\ pc[g] = "Unlock"
    /\ mutex' = [mutex EXCEPT !.writer = NoQ]
    /\ pc' = [pc EXCEPT ![g] = IF frame[g].op = "HandleMessage" THEN "hm115" ELSE "idle"]
    /\ frame' = [frame EXCEPT ![g] = IF frame[g].op = "HandleMessage" THEN @ ELSE Idle]
    /\ UNCHANGED <<questions, currentQuestionIndex, msgIds, conversations, kbs, config, table, UserStates,
                   calls, started, panicked, kept, last>>

\* the deferred m.mutex.RUnlock()
RUnlock(g) ==
    /\ ~panicked /\ pc[g] = "RUnlock"
    /\ mutex' = [mutex EXCEPT !.readers = @ \ {g}]
    /\ pc' = [pc EXCEPT ![g] = "idle"]
    /\ frame' = [frame EXCEPT ![g] = Idle]
    /\ UNCHANGED <<questions, currentQuestionIndex, msgIds, conversations, kbs, config, table, UserStates,
                   calls, started, panicked, kept, last>>

\* another goroutine is at its write to the map
Racing(g) == \E h \in Goroutines \ {g} : pc[h] = "write"

\* what a read of the map can see: the map, or under a racing write the map that write
\* leaves
Seen(g) ==
    {conversations} \cup {Written(h) : h \in {k \in Goroutines \ {g} : pc[k] = "write"}}

\* the runtime found a map read concurrent with a map write: the process dies
Fatal(g) ==
    /\ Racing(g)
    /\ panicked' = TRUE
    /\ UNCHANGED <<questions, currentQuestionIndex, msgIds, conversations, kbs, config, table, UserStates,
                   threads, started, kept, last>>

\* HandleMessage line 94: q, exists := m.conversations[chatID]
Lookup(g) ==
    /\ ~panicked /\ pc[g] = "hm94"
    /\ \/ Fatal(g)
       \/ \E conv \in Seen(g) :
             /\ IF Exists(conv, frame[g].chat)
                THEN /\ frame' = [frame EXCEPT ![g].q = Route(conv, frame[g].chat)]
                     /\ pc' = [pc EXCEPT ![g] = "hm100"]
                ELSE /\ frame' = [frame EXCEPT ![g] = Idle]
                     /\ pc' = [pc EXCEPT ![g] = "idle"]
             /\ UNCHANGED <<questions, currentQuestionIndex, msgIds, conversations, kbs,
                            config, table, UserStates, mutex, calls, started, panicked, kept, last>>

\* HandleMessage lines 100 and 115: len(m.conversations), printed
CountSessions(g) ==
    /\ ~panicked /\ pc[g] \in {"hm100", "hm115"}
    /\ \/ Fatal(g)
       \/ /\ pc' = [pc EXCEPT ![g] = IF pc[g] = "hm100" THEN "hm102" ELSE "idle"]
          /\ frame' = [frame EXCEPT ![g] = IF pc[g] = "hm100" THEN @ ELSE Idle]
          /\ UNCHANGED <<questions, currentQuestionIndex, msgIds, conversations, kbs,
                         config, table, UserStates, mutex, calls, started, panicked, kept, last>>

\* the writes of a part of HandleMessage become the next state
Write(s, g, ret, to) ==
    /\ \A r \in Qs : Len(s.msgIds[r]) <= budget[r]
    /\ questions' = s.questions
    /\ currentQuestionIndex' = s.currentQuestionIndex
    /\ msgIds' = s.msgIds
    /\ conversations' = s.conversations
    /\ kbs' = s.kbs
    /\ last' = [op |-> "HandleMessage", chat |-> frame[g].chat, q |-> frame[g].q,
                arg |-> frame[g].text, ret |-> ret, out |-> s.out]
    /\ pc' = [pc EXCEPT ![g] = to]
    /\ frame' = [frame EXCEPT ![g] = IF to = "idle" THEN Idle ELSE @]
    /\ UNCHANGED <<config, table, UserStates, mutex, calls, started, panicked, kept>>

\* HandleMessage line 102: q.Answer(...); the Show in it calls Manager.Add, which takes
\* the mutex for its write and gives it back
AnswerMessage(g) ==
    /\ ~panicked /\ pc[g] = "hm102"
    /\ IF ~InRange(frame[g].q)
       THEN /\ panicked' = TRUE
            /\ UNCHANGED <<questions, currentQuestionIndex, msgIds, conversations, kbs,
                           config, table, UserStates, threads, started, kept, last>>
       ELSE LET a == Answer(Here, frame[g].q, frame[g].text) IN
            /\ (\E i \in DOMAIN a.out : a.out[i].e = "Show") => MutexFree
            /\ Write(a, g, Returned(a), IF a.ret THEN "hm110" ELSE "idle")

\* HandleMessage lines 110 and 112: q.Done(...), then the call of q.manager.Remove
Finish(g) ==
    /\ ~panicked /\ pc[g] = "hm110"
    /\ \E handlerErr \in BOOLEAN :
         Write(Done(Here, frame[g].q, handlerErr), g, "true", "Lock")

NextConc ==
    \E g \in Goroutines :
        \/ Call(g)
        \/ Lock(g)
        \/ RLock(g)
        \/ MapWrite(g)
        \/ MapRead(g)
        \/ Unlock(g)
        \/ RUnlock(g)
        \/ Lookup(g)
        \/ CountSessions(g)
        \/ AnswerMessage(g)
        \/ Finish(g)

SpecConc == InitConc /\ [][NextConc]_vars

(***************************************************************************)
(* Properties of the questionnaire flow                                    *)
(***************************************************************************)
\* the step just taken ran Answer on questionnaire q and Answer returned
AnswerReturned(q) ==
    last.q = q /\ last.ret \in {"true", "false"}

\* the current question of q, in the state before the step
CurQuestion(q) == questions[q][currentQuestionIndex[q] + 1]

SameAnswers(q, i) ==
    /\ questions'[q][i + 1].Answer = questions[q][i + 1].Answer
    /\ questions'[q][i + 1].ChoicesSelected = questions[q][i + 1].ChoicesSelected

Indices(q) == 0..(Len(questions[q]) - 1)

\* C1: when the validator of the current question rejects the submitted answer (text,
\* radio choice or checkbox selection), Answer returns false, currentQuestionIndex and
\* the question's Answer and ChoicesSelected are unchanged, and the same question is
\* shown again with the error.
C1_RejectedAnswerReshown ==
    [][\A q \in Qs :
         ( /\ AnswerReturned(q)'
           /\ InRange(q)
           /\ ~(CurQuestion(q).QuestionFormat = QuestionFormatCheck /\ last'.arg = CmdDone)
           /\ CurQuestion(q).validator
           /\ last'.arg \in Rejected )
         => /\ last'.ret = "false"
            /\ currentQuestionIndex'[q] = currentQuestionIndex[q]
            /\ \A i \in Indices(q) : SameAnswers(q, i)
            /\ last'.out = <<Effect("Show", q, currentQuestionIndex[q], TRUE)>>
      ]_vars

\* a checkbox selection was rejected and the checkbox question shown again with the error
C1_Witness ==
    /\ last.op = "onInlineKeyboardSelect" /\ last.arg = "bad" /\ last.ret = "false"
    /\ InRange("q1")
    /\ CurQuestion("q1").QuestionFormat = QuestionFormatCheck
    /\ last.out = <<Effect("Show", "q1", currentQuestionIndex["q1"], TRUE)>>

\* C2: Answer returns true exactly when currentQuestionIndex >= len(questions) after
\* the answer is processed, and false on every call that leaves a question open.
C2_AnswerReturnsDone ==
    \A q \in Qs :
        AnswerReturned(q)
        => (last.ret = "true" <=> currentQuestionIndex[q] >= Len(questions[q]))

\* the last question was answered by a button and Answer returned true
C2_Witness ==
    /\ last.op = "onInlineKeyboardSelect" /\ last.ret = "true"
    /\ currentQuestionIndex["q1"] = Len(questions["q1"])

\* C3: tapping the Edit button of question k makes k the current question, clears
\* Answer, ChoicesSelected and MsgID of every question after k, and shows question k.
C3_SmartReset ==
    \A q \in Qs :
        (last.op = "onBack" /\ last.q = q /\ Atoi(last.arg) \in Indices(q))
        => LET k == Atoi(last.arg) IN
           /\ currentQuestionIndex[q] = k
           /\ \A i \in Indices(q) :
                i > k => /\ questions[q][i + 1].Answer = ""
                         /\ questions[q][i + 1].ChoicesSelected = <<>>
                         /\ questions[q][i + 1].MsgID = 0
           /\ last.out = <<Effect("Show", q, k, FALSE)>>

\* the Edit button of the first question was tapped after the later questions had been shown
C3_Witness ==
    /\ last.op = "onBack" /\ last.q = "q1" /\ Atoi(last.arg) = 0
    /\ questions["q1"][1].Answer # ""
    /\ Len(msgIds["q1"]) >= Len(questions["q1"]) + 1

\* the step is the Edit button of question k of questionnaire q
IsBack(q, k) ==
    last'.op = "onBack" /\ last'.q = q /\ Atoi(last'.arg) = k

\* C4 as stated: a back navigation to question k leaves Answer and ChoicesSelected of
\* every earlier question as they were, and they stay so until that question itself
\* is edited.
C4_KeptUntilEdited ==
    [][\A q \in Qs :
         /\ \A k \in Indices(q) :
              IsBack(q, k) => \A j \in Indices(q) : j < k => SameAnswers(q, j)
         /\ \A j \in kept[q] : ~IsBack(q, j) => SameAnswers(q, j)
      ]_vars

\* C4 amended: a back navigation to question k leaves Answer and ChoicesSelected of
\* every earlier question as they were, and they stay so until that question itself is
\* edited or a back navigation to a still earlier question clears them.
C4_KeptUntilEditedOrReset ==
    [][\A q \in Qs :
         /\ \A k \in Indices(q) :
              IsBack(q, k) => \A j \in Indices(q) : j < k => SameAnswers(q, j)
         /\ \A j \in kept[q] :
              SameAnswers(q, j)
              \/ \E m \in Indices(q) :
                    /\ m < j /\ IsBack(q, m)
                    /\ questions'[q][j + 1].Answer = ""
                    /\ questions'[q][j + 1].ChoicesSelected = <<>>
      ]_vars

\* the Edit button of the last question was tapped while the earlier ones were answered
C4_Witness ==
    /\ last.op = "onBack" /\ last.q = "q1" /\ Atoi(last.arg) = 2
    /\ kept["q1"] = {0, 1}
    /\ questions["q1"][1].Answer # "" /\ questions["q1"][2].Answer # ""

\* the effects of kind e in the output of the step just taken
Effects(e) == {i \in DOMAIN last.out : last.out[i].e = e}

\* the step just taken completed questionnaire q and its onDoneHandler returned no error
CompletedOK(q) ==
    /\ last.q = q /\ last.ret = "true"
    /\ \E i \in Effects("onDoneHandler") : last.out[i].q = q
    /\ \E i \in Effects("DeleteMessages") : last.out[i].q = q

\* C5: once the last question is answered and onDoneHandler has returned no error, the
\* Manager has no entry for the questionnaire's chat, whether the last answer was a text
\* message or a button tap.
C5_RemovedWhenDone ==
    \A q \in Qs :
        (CompletedOK(q) /\ manager[q]) => ~Exists(conversations, chatID[q])

\* C6: once the Cancel button of a questionnaire with an onCancelHandler and a Manager
\* has been tapped, the Manager has no entry for the questionnaire's chat.
C6_RemovedWhenCancelled ==
    \A q \in Qs :
        (last.op = "onCancel" /\ last.q = q /\ onCancelHandler[q] /\ manager[q])
            => ~Exists(conversations, chatID[q])

\* C7: a step that shows a question of a questionnaire with a Manager and a chat id
\* leaves Manager.Get(chatID) returning that questionnaire, whichever questionnaire the
\* chat had before.
C7_ShowRegisters ==
    \A i \in Effects("Show") :
        LET q == last.out[i].q IN
        (manager[q] /\ chatID[q] \in Chats) => Get(conversations, chatID[q]) = q

\* a second questionnaire was shown in the chat of the first and took its place
C7_Witness ==
    /\ chatID["q1"] = chatID["q2"]
    /\ started["q1"] /\ started["q2"]
    /\ last.op = "Show" /\ last.q = "q1"
    /\ Get(conversations, chatID["q1"]) = "q1"

\* the step leaves questionnaire r as it was: its questions, position, messages, keyboards
\* and its entry in the Manager
Untouched(r) ==
    /\ questions'[r] = questions[r]
    /\ currentQuestionIndex'[r] = currentQuestionIndex[r]
    /\ msgIds'[r] = msgIds[r]
    /\ {K \in kbs' : K.q = r} = {K \in kbs : K.q = r}
    /\ \A c \in Chats : (Get(conversations', c) = r) <=> (Get(conversations, c) = r)

\* C8: HandleMessage for a message of chat c touches only the questionnaire registered
\* for c: questionnaires of other chats stay as they were, and a message of a chat
\* without a questionnaire, or an update without a message, changes nothing.
C8_RoutedByChat ==
    [][/\ (last'.op = "HandleMessage" /\ last'.chat \in Senders) =>
             \A r \in Qs : (chatID[r] # last'.chat \/ Get(conversations, last'.chat) # r)
                              => Untouched(r)
       /\ \A c \in Senders, text \in Texts :
             (~Exists(conversations, c) /\ HandleMessage(c, text)) =>
                 UNCHANGED <<questions, currentQuestionIndex, msgIds, conversations, kbs>>
       /\ HandleNoMessage =>
             UNCHANGED <<questions, currentQuestionIndex, msgIds, conversations, kbs>>
      ]_vars

\* both chats run a questionnaire and a message of the first chat was answered
C8_Witness ==
    /\ Get(conversations, 101) = "q1" /\ Get(conversations, 102) = "q2"
    /\ last.op = "HandleMessage" /\ last.chat = 101 /\ last.q = "q1" /\ last.arg = "zz"
    /\ currentQuestionIndex["q1"] = 1 /\ currentQuestionIndex["q2"] = 0

\* the value GetAnswers gives for question i of questionnaire q
Answered(q, i) ==
    IF questions[q][i].QuestionFormat = QuestionFormatCheck
    THEN questions[q][i].ChoicesSelected
    ELSE questions[q][i].Answer

\* C10: GetAnswers has an entry for every question key, the Answer string of a text or
\* radio question and the selections of a checkbox question in the order they were
\* made; it has every entry of InitialData, and on a shared key InitialData's value.
C10_GetAnswers ==
    /\ [](\A q \in Qs :
            LET answers == GetAnswers(questions[q], InitialData[q]) IN
            /\ \A i \in DOMAIN questions[q] :
                 /\ questions[q][i].Key \in DOMAIN answers
                 /\ questions[q][i].Key \notin DOMAIN InitialData[q]
                        => answers[questions[q][i].Key] = Answered(q, i)
            /\ \A k \in DOMAIN InitialData[q] :
                 k \in DOMAIN answers /\ answers[k] = InitialData[q][k]
            /\ \A i \in Effects("onDoneHandler") :
                 last.out[i].q = q => last.out[i].arg = answers)
    /\ [][\A q \in Qs :
            (/\ last'.op = "onInlineKeyboardSelect" /\ last'.q = q
             /\ InRange(q) /\ CurQuestion(q).QuestionFormat = QuestionFormatCheck
             /\ last'.out[1].arg = FALSE)
            => LET k == CurQuestion(q).Key
                   answers == GetAnswers(questions'[q], InitialData[q]) IN
               k \notin DOMAIN InitialData[q]
                   => answers[k] = Append(CurQuestion(q).ChoicesSelected, last'.arg)
        ]_vars

\* the second question is a checkbox question whose choices were selected second one
\* first, and InitialData has a value for its key and for a key of its own
C10_Witness ==
    /\ questions["q1"][1].QuestionFormat = QuestionFormatText
    /\ questions["q1"][2].QuestionFormat = QuestionFormatCheck
    /\ questions["q1"][1].Answer = "zz"
    /\ last.op = "onInlineKeyboardSelect" /\ last.arg = "a"
    /\ questions["q1"][2].ChoicesSelected = <<"b", "a">>
    /\ LET answers == GetAnswers(questions["q1"], InitialData["q1"]) IN
         /\ answers["k1"] = "zz"
         /\ answers["k2"] = "init"
         /\ answers["src"] = "init"

\* the goroutine is at an access to the conversations map
AtMapRead(g) == pc[g] \in {"read", "hm94", "hm100", "hm115"}
AtMapWrite(g) == pc[g] = "write"

\* C9: every read and every write of the conversations map in Add, Remove, Get, Exists
\* and HandleMessage is made holding the mutex.
C9_MapAccessLocked ==
    \A g \in Goroutines :
        /\ AtMapWrite(g) => HoldsWrite(g)
        /\ AtMapRead(g) => (HoldsRead(g) \/ HoldsWrite(g))

\* the keyboards of questionnaire q that sit on one of its tracked messages
Tracked(q) == {K \in kbs : K.q = q /\ K.msg \in Range(msgIds[q])}

C12_NoEditNoBack ==
    [][\A q \in Qs :
         ~allowEditAnswers[q] =>
             /\ currentQuestionIndex'[q] >= currentQuestionIndex[q]
             /\ \A j \in Indices(q) : j < currentQuestionIndex[q] => SameAnswers(q, j)
      ]_vars

\* the questionnaire without editing has answered two questions, the first by a button
C12_Witness ==
    /\ ~allowEditAnswers["q1"]
    /\ currentQuestionIndex["q1"] = 2
    /\ questions["q1"][1].QuestionFormat = QuestionFormatRadio
    /\ questions["q1"][1].Answer = "a"
    /\ last.q = "q1" /\ last.ret = "false"

\* the step ran Answer on questionnaire q and moved it from its current question to the next
Completes(q) ==
    /\ AnswerReturned(q)'
    /\ currentQuestionIndex'[q] = currentQuestionIndex[q] + 1

\* the output of the step has a summary of question i of questionnaire q
Summarised(q, i) ==
    \E n \in DOMAIN last'.out :
        last'.out[n].e = "Summary" /\ last'.out[n].q = q /\ last'.out[n].idx = i

\* C13: a questionnaire built with SetAllowEditAnswers(false) still produces the
\* checkmark summary of each question when the question is completed, and the summary
\* has no Edit button.
C13_SummaryWithoutEdit ==
    [][\A q \in Qs :
         (~allowEditAnswers[q] /\ Completes(q)) =>
             /\ Summarised(q, currentQuestionIndex[q])
             /\ ~\E K \in kbs' : K.q = q /\ K.kind = "edit"
      ]_vars

\* the output of the step has a summary of question i of questionnaire q whose Edit
\* button carries i as its callback data
SummarisedWithEdit(q, i) ==
    \E n \in DOMAIN last'.out :
        /\ last'.out[n].e = "Summary" /\ last'.out[n].q = q /\ last'.out[n].idx = i
        /\ Atoi(last'.out[n].arg) = i

\* C14 as stated: with editing enabled, whenever currentQuestionIndex advances from i to
\* i + 1 a summary of question i with an Edit button of callback data i is produced.
C14_AdvanceSummarised ==
    [][\A q \in Qs :
         (allowEditAnswers[q] /\ currentQuestionIndex'[q] = currentQuestionIndex[q] + 1)
             => SummarisedWithEdit(q, currentQuestionIndex[q])
      ]_vars

\* C14 amended: with editing enabled, whenever an answer completes question i (Answer
\* advances currentQuestionIndex from i to i + 1, the last question included) a summary
\* of question i with an Edit button of callback data i is produced, and the button is
\* on screen unless Done has deleted the messages; the only other step that advances
\* currentQuestionIndex by one is the Edit button of question i + 1.
C14_AnswerSummarised ==
    [][\A q \in Qs :
         (allowEditAnswers[q] /\ currentQuestionIndex'[q] = currentQuestionIndex[q] + 1)
             => \/ /\ Completes(q)
                   /\ SummarisedWithEdit(q, currentQuestionIndex[q])
                   /\ \/ \E n \in DOMAIN last'.out : last'.out[n].e = "DeleteMessages"
                      \/ \E K \in kbs' :
                            /\ K.q = q /\ K.kind = "edit"
                            /\ Buttons(K) = {Button("onBack", Itoa(currentQuestionIndex[q]))}
                \/ IsBack(q, currentQuestionIndex[q] + 1)
      ]_vars

\* the last question, a checkbox question, was completed by its Done button and its
\* summary carries the Edit button
C14_Witness ==
    /\ last.op = "onDoneChoosing" /\ last.q = "q1" /\ last.ret = "true"
    /\ \E n \in DOMAIN last.out :
         /\ last.out[n].e = "Summary" /\ last.out[n].idx = 2 /\ last.out[n].arg = "2"
    /\ \E K \in kbs : K.kind = "edit" /\ K.step = 2

(***************************************************************************)
(* Progress of one questionnaire whose chat keeps answering.  The chat     *)
(* does not cancel; the steps that do not complete a question (rejected    *)
(* answers, checkbox selections, back navigations) are finitely many, the  *)
(* model allowing them only while enough of the message budget is left to  *)
(* answer every open question (at most a summary and the next question     *)
(* per answer); and an answer that completes the current question is       *)
(* given again and again until one is taken.                               *)
(***************************************************************************)
InitLive ==
    /\ Built
    /\ allowEditAnswers["q1"]
    /\ built = {"q1"}
    /\ chatID["q2"] = 102
    /\ questions["q1"][1].QuestionFormat = QuestionFormatText
    /\ questions["q1"][2].QuestionFormat = QuestionFormatRadio
    /\ questions["q1"][3].QuestionFormat = QuestionFormatCheck
    /\ budget = [q1 |-> MaxMsgs + 4, q2 |-> MaxMsgsOther]

\* messages left for the answers still to come
Reserve ==
    \A q \in Qs :
        currentQuestionIndex[q] <= Len(questions[q]) =>
            Len(msgIds[q]) + 2 * (Len(questions[q]) - currentQuestionIndex[q]) <= budget[q]

NextLive ==
    \/ Start("q1") /\ Reserve'
    \/ HandleNoMessage
    \/ \E c \in Senders, text \in Texts : HandleMessage(c, text) /\ Reserve'
    \/ ClickSelect /\ Reserve'
    \/ ClickDone /\ Reserve'
    \/ ClickUnSelect /\ Reserve'
    \/ ClickBack /\ Reserve'

\* the chat types an answer that completes the current question of the questionnaire
Accepted ==
    \E text \in Texts :
        HandleMessage(chatID["q1"], text) /\ Reserve' /\ Completes("q1")

SpecLive ==
    /\ InitLive /\ [][NextLive]_vars
    /\ WF_vars(Start("q1") /\ Reserve')
    /\ SF_vars(Accepted)

\* the step just taken answered the last question and Done called the handler
Completed(q) ==
    /\ currentQuestionIndex[q] = Len(questions[q])
    /\ last.q = q /\ last.ret = "true"
    /\ \E i \in Effects("onDoneHandler") : last.out[i].q = q

\* C15: when the chat keeps answering, every question in the end gets an answer its
\* validator accepts, and the chat goes back finitely often and does not cancel, the
\* questionnaire completes: currentQuestionIndex reaches len(questions) and Done runs.
C15_Completes == <>Completed("q1")

\* the questionnaire completed after steps that completed no question
C15_Witness ==
    /\ Completed("q1")
    /\ Len(msgIds["q1"]) > 2 * Len(questions["q1"])

\* C16: AddQuestion creates a QuestionFormatText question when choices is nil or
\* empty, and a QuestionFormatRadio question when choices are provided.
C16_AddQuestionFormat ==
    \A q \in Qs :
        (last.op = "AddQuestion" /\ last.q = q) =>
            questions[q][Len(questions[q])].QuestionFormat =
                IF last.arg.nil \/ last.arg.rows = <<>>
                THEN QuestionFormatText
                ELSE QuestionFormatRadio

\* C17: in every reachable state the Answer of a radio question is empty or the
\* callback data of one of the question's choices, whatever buttons are tapped and
\* whatever texts are sent.
C17_RadioAnswerIsChoice ==
    \A q \in Qs : \A i \in DOMAIN questions[q] :
        questions[q][i].QuestionFormat = QuestionFormatRadio =>
            (questions[q][i].Answer = "" \/ questions[q][i].Answer \in ChoiceData(questions[q][i]))

\* C18: a checkbox question that the flow has advanced past has at least one entry in
\* ChoicesSelected.
C18_CheckboxHasSelection ==
    \A q \in Qs : \A i \in DOMAIN questions[q] :
        (questions[q][i].QuestionFormat = QuestionFormatCheck /\ i - 1 < currentQuestionIndex[q])
            => questions[q][i].ChoicesSelected # <<>>

\* what the pagination row on screen shows: its numbered buttons, and their pages
IsNumbered(b) == \E n \in 0..9 : b.text \in {Itoa(n), "( " \o Itoa(n) \o " )"}
Numbered == SelectSeq(controls, IsNumbered)
PageOf(b) == Atoi(TrimPrefix(b.data, cbPfxSetPage))
NumberedPages == {PageOf(Numbered[k]) : k \in DOMAIN Numbered}
Marked == {k \in DOMAIN Numbered : \E n \in 0..9 : Numbered[k].text = "( " \o Itoa(n) \o " )"}
PageInRange == 1 <= currentFilter.pageNum /\ currentFilter.pageNum <= pagesCount

\* C19: with more than one page and the current page in range, at most 5 numbered
\* buttons are shown; they are the consecutive pages from calcStartPage() to
\* min(calcStartPage()+4, pagesCount), all within [1, pagesCount]; the current page is
\* among them, and it is the one button marked "( n )".
C19_PageButtons ==
    (pagesCount > 1 /\ PageInRange) =>
        LET start == calcStartPage(Table)
            stop == IF start + 4 < pagesCount THEN start + 4 ELSE pagesCount
        IN  /\ Len(Numbered) <= 5
            /\ Len(Numbered) = stop - start + 1
            /\ \A k \in DOMAIN Numbered : PageOf(Numbered[k]) = start + k - 1
            /\ NumberedPages \subseteq 1..pagesCount
            /\ currentFilter.pageNum \in NumberedPages
            /\ Cardinality(Marked) = 1
            /\ \A k \in Marked : PageOf(Numbered[k]) = currentFilter.pageNum

\* a table of more pages than buttons shows a window in the middle of the pages
C19_Witness ==
    /\ last.op = "handleSetPage"
    /\ pagesCount = MaxPages
    /\ currentFilter.pageNum = 4
    /\ NumberedPages = 2..6

HasFirst == \E b \in Range(controls) : b.text = FIRSTPAGE(1)
HasLast == \E b \in Range(controls) : \E n \in 0..9 : b.text = LASTPAGE(n)
HasBack == \E b \in Range(controls) : b = CtrlBack
HasNext == \E b \in Range(controls) : b = CtrlNext
Shortcuts ==
    /\ HasFirst <=> 1 \notin NumberedPages
    /\ HasLast <=> pagesCount \notin NumberedPages
    /\ HasBack <=> currentFilter.pageNum > 1
    /\ HasNext <=> currentFilter.pageNum < pagesCount

\* C20 as stated: for 1 <= pageNum <= pagesCount the first-page shortcut is shown
\* exactly when page 1 is not among the numbered buttons, the last-page shortcut
\* exactly when page pagesCount is not among them, Back exactly when pageNum > 1 and
\* Next exactly when pageNum < pagesCount.
C20_Shortcuts == PageInRange => Shortcuts

\* C20, amended: the same for a table of more than one page; a table of one page has
\* no pagination row at all.
C20_ShortcutsOfSeveralPages == (pagesCount > 1 /\ PageInRange) => Shortcuts

\* both shortcuts are on screen
C20_Witness ==
    /\ last.op = "handleNextPage"
    /\ PageInRange
    /\ HasFirst /\ HasLast /\ HasBack /\ HasNext

C22_NilBotReported ==
    [][dtb.ptr = "nil" =>
           /\ ~panicked'
           /\ last'.op = "Build" => (dt'.ptr = "nil" /\ dt'.err = ErrBot)
      ]_vars

\* C26: a table built without a WithItemsPerPage call passes the page size 10 to the
\* data handler on Show.
C26_DefaultItemsPerPage ==
    (last.op = "Show" /\ "WithItemsPerPage" \notin dtb.with) => last.out[1].pageSize = 10

\* the chat has a state with a non-nil PreviousElement
HasPrevious(c) == UserStates[c].exists /\ UserStates[c].PreviousElement # "nil"

\* C23: SetCurrentElement(chat, e) makes e current and moves the prior current element
\* to PreviousElement.  Back(chat) returns true exactly when a state with a non-nil
\* PreviousElement exists, and then makes that element current and clears
\* PreviousElement; a second consecutive Back returns false and changes nothing.
C23_OneStepHistory ==
    [][/\ last'.op = "SetCurrentElement" =>
              /\ UserStates'[last'.chat].exists
              /\ UserStates'[last'.chat].CurrentElement = last'.arg
              /\ UserStates'[last'.chat].PreviousElement = UserStates[last'.chat].CurrentElement
       /\ last'.op = "Back" =>
              /\ last'.ret = (IF HasPrevious(last'.chat) THEN "true" ELSE "false")
              /\ HasPrevious(last'.chat) =>
                     /\ UserStates'[last'.chat].CurrentElement =
                            UserStates[last'.chat].PreviousElement
                     /\ UserStates'[last'.chat].PreviousElement = "nil"
              /\ ~HasPrevious(last'.chat) => UserStates' = UserStates
       /\ (last.op = "Back" /\ last'.op = "Back" /\ last'.chat = last.chat) =>
              (last'.ret = "false" /\ UserStates' = UserStates)
      ]_vars

\* Back returned true and made the previous element current, keeping the context data
C23_Witness ==
    /\ last.op = "Back"
    /\ last.ret = "true"
    /\ UserStates[last.chat].CurrentElement = "e1"
    /\ UserStates[last.chat].PreviousElement = "nil"
    /\ UserStates[last.chat].ContextData["c1"] = "v1"

\* C24: when the chat has a non-nil PreviousElement p, HandleBack returns (true, p)
\* and p becomes the current element; otherwise it returns (false, nil).
C24_HandleBackReturnsPrevious ==
    [][last'.op = "HandleBack" =>
           IF HasPrevious(last'.chat)
           THEN /\ last'.ret = "true"
                /\ last'.out = <<UserStates[last'.chat].PreviousElement>>
                /\ UserStates'[last'.chat].CurrentElement =
                       UserStates[last'.chat].PreviousElement
           ELSE last'.ret = "false" /\ last'.out = <<"nil">>
      ]_vars

\* C25: Cancel removes all state data of the chat: afterwards GetState(chat) is nil,
\* GetContextData(chat, k) is nil for every key and Back(chat) returns false; the
\* state of every other chat is unchanged.
C25_CancelRemoves ==
    [][last'.op = "Cancel" =>
           /\ ~GetState(UserStates', last'.chat).ret.exists
           /\ \A k \in ContextKeys : GetContextData(UserStates', last'.chat, k).ret = "nil"
           /\ Back(UserStates', last'.chat).ret = "false"
           /\ Back(UserStates', last'.chat).UserStates = UserStates'
           /\ \A c \in Chats \ {last'.chat} : UserStates'[c] = UserStates[c]
      ]_vars

\* a chat with elements and context data was cancelled while the other chat has both
C25_Witness ==
    /\ last.op = "Cancel"
    /\ ~UserStates[last.chat].exists
    /\ \E c \in Chats \ {last.chat} :
           /\ HasPrevious(c)
           /\ UserStates[c].ContextData["c2"] = "v1"

\* the validator of the current question of q, if it has one, accepts the answer
Accepts(q, answer) == CurQuestion(q).validator => answer \notin Rejected

\* the step ran Answer on questionnaire q while its current question had the format f
Answers(q, f) ==
    /\ AnswerReturned(q)'
    /\ InRange(q)
    /\ CurQuestion(q).QuestionFormat \in f

\* the step put question i of questionnaire q on screen
Shows(q, i) ==
    \E n \in DOMAIN last'.out :
        last'.out[n].e = "Show" /\ last'.out[n].q = q /\ last'.out[n].idx = i

\* C27: for a text or radio question, an answer the validator accepts is stored as the
\* question's Answer and currentQuestionIndex advances by exactly 1 in the same Answer
\* call; no other question's Answer or ChoicesSelected changes.
C27_AcceptedAnswerStored ==
    [][\A q \in Qs :
         (Answers(q, {QuestionFormatText, QuestionFormatRadio}) /\ Accepts(q, last'.arg)) =>
             /\ questions'[q][currentQuestionIndex[q] + 1].Answer = last'.arg
             /\ questions'[q][currentQuestionIndex[q] + 1].ChoicesSelected =
                    CurQuestion(q).ChoicesSelected
             /\ currentQuestionIndex'[q] = currentQuestionIndex[q] + 1
             /\ \A i \in Indices(q) \ {currentQuestionIndex[q]} : SameAnswers(q, i)
      ]_vars

\* a radio question was answered by a button and the text question after it by a message
C27_Witness ==
    /\ last.op = "HandleMessage" /\ last.arg = "zz" /\ last.q = "q1"
    /\ currentQuestionIndex["q1"] = 2
    /\ questions["q1"][1].QuestionFormat = QuestionFormatRadio
    /\ questions["q1"][1].Answer = "a"
    /\ questions["q1"][2].QuestionFormat = QuestionFormatText
    /\ questions["q1"][2].Answer = "zz"

\* C28: for a checkbox question, a selection the validator accepts is appended to
\* ChoicesSelected and does not advance currentQuestionIndex, and the question is shown
\* again; only the answer "cmd_done" advances currentQuestionIndex, by exactly 1,
\* without running the validator and without changing ChoicesSelected.
C28_CheckboxAnswer ==
    [][\A q \in Qs :
         Answers(q, {QuestionFormatCheck}) =>
             /\ (last'.arg # CmdDone /\ Accepts(q, last'.arg)) =>
                    /\ questions'[q][currentQuestionIndex[q] + 1].ChoicesSelected =
                           Append(CurQuestion(q).ChoicesSelected, last'.arg)
                    /\ Shows(q, currentQuestionIndex[q])
             /\ last'.arg # CmdDone => currentQuestionIndex'[q] = currentQuestionIndex[q]
             /\ last'.arg = CmdDone =>
                    /\ currentQuestionIndex'[q] = currentQuestionIndex[q] + 1
                    /\ questions'[q][currentQuestionIndex[q] + 1].ChoicesSelected =
                           CurQuestion(q).ChoicesSelected
             /\ \A i \in Indices(q) \ {currentQuestionIndex[q]} : SameAnswers(q, i)
      ]_vars

\* a checkbox question with a validator that rejects "cmd_done" was completed by Done
\* after two selections
C28_Witness ==
    /\ last.op = "onDoneChoosing" /\ last.q = "q1"
    /\ currentQuestionIndex["q1"] = 1
    /\ questions["q1"][1].QuestionFormat = QuestionFormatCheck
    /\ questions["q1"][1].validator
    /\ questions["q1"][1].ChoicesSelected = <<"b", "a">>

\* the step ran onInlineKeyboardUnSelect on questionnaire q, whose index is in range
Unselects(q) ==
    /\ last'.op = "onInlineKeyboardUnSelect" /\ last'.q = q /\ last'.ret = "none"
    /\ InRange(q)

\* seq without its k-th element
Without(seq, k) == SubSeq(seq, 1, k - 1) \o SubSeq(seq, k + 1, Len(seq))

\* the selections before and after the step
Selected(q) == CurQuestion(q).ChoicesSelected
SelectedAfter(q) == questions'[q][currentQuestionIndex[q] + 1].ChoicesSelected

\* an unselect step leaves the index alone and shows the question again; directly after
\* the selection of a choice that was not selected it restores the selections
UnselectFrame(q) ==
    /\ currentQuestionIndex'[q] = currentQuestionIndex[q]
    /\ Shows(q, currentQuestionIndex[q])
    /\ \A i \in Indices(q) \ {currentQuestionIndex[q]} : SameAnswers(q, i)
    /\ ( /\ AnswerReturned(q) /\ last.arg = last'.arg
         /\ CurQuestion(q).QuestionFormat = QuestionFormatCheck
         /\ Accepts(q, last.arg)
         /\ Selected(q) # <<>>
         /\ last.arg \notin Range(SubSeq(Selected(q), 1, Len(Selected(q)) - 1)) )
       => SelectedAfter(q) = SubSeq(Selected(q), 1, Len(Selected(q)) - 1)

\* C29 as stated: unselecting a choice removes exactly one occurrence of it from the
\* current question's ChoicesSelected, keeps the order of the remaining selections,
\* leaves currentQuestionIndex unchanged and shows the question again; selecting a choice
\* that was not selected and then unselecting it restores ChoicesSelected.
C29_UnselectRemovesOne ==
    [][\A q \in Qs :
         Unselects(q) =>
             /\ \E k \in DOMAIN Selected(q) :
                    Selected(q)[k] = last'.arg /\ SelectedAfter(q) = Without(Selected(q), k)
             /\ UnselectFrame(q)
      ]_vars

\* C29, amended: the same when the choice is among the selections of the current
\* question; an unselect button of a choice that is no longer selected changes no
\* selection.
C29_UnselectRemovesOneIfSelected ==
    [][\A q \in Qs :
         Unselects(q) =>
             /\ IF last'.arg \in Range(Selected(q))
                THEN \E k \in DOMAIN Selected(q) :
                         Selected(q)[k] = last'.arg /\ SelectedAfter(q) = Without(Selected(q), k)
                ELSE SelectedAfter(q) = Selected(q)
             /\ UnselectFrame(q)
      ]_vars

\* the first of two selections was unselected
C29_Witness ==
    /\ last.op = "onInlineKeyboardUnSelect" /\ last.q = "q1" /\ last.arg = "a"
    /\ InRange("q1")
    /\ CurQuestion("q1").QuestionFormat = QuestionFormatCheck
    /\ CurQuestion("q1").ChoicesSelected = <<"b">>
    /\ kept["q1"] = {}

\* the rows `result` are, in order, the rows of Choices cut down to the choices whose
\* selection is `want`, the rows that are cut down to nothing left out
RowsOf(question, result, want) ==
    LET cut(row) == SelectSeq(row, LAMBDA c : (c \in Range(question.ChoicesSelected)) = want)
    IN  \E f \in [DOMAIN result -> DOMAIN question.Choices] :
            /\ \A r, s \in DOMAIN result : r < s => f[r] < f[s]
            /\ \A r \in DOMAIN result : result[r] = cut(question.Choices[f[r]])
            /\ \A j \in DOMAIN question.Choices :
                   (\A r \in DOMAIN result : f[r] # j) => cut(question.Choices[j]) = <<>>

\* C30: GetSelectedChoices and GetUnselectedChoices partition the Choices of a checkbox
\* question: a choice is in the first when its callback data is in ChoicesSelected and
\* in the second otherwise, the order of the choices in a row and of the rows is kept,
\* and neither result has an empty row.
C30_ChoicesPartitioned ==
    \A i \in DOMAIN questions["q1"] :
        LET question == questions["q1"][i]
            selected == IF last.op = "GetSelectedChoices"
                        THEN last.out ELSE GetSelectedChoices(question)
            unselected == IF last.op = "GetUnselectedChoices"
                          THEN last.out ELSE GetUnselectedChoices(question)
        IN  question.QuestionFormat = QuestionFormatCheck =>
                /\ RowsOf(question, selected, TRUE)
                /\ RowsOf(question, unselected, FALSE)
                /\ \A r \in DOMAIN selected : selected[r] # <<>>
                /\ \A r \in DOMAIN unselected : unselected[r] # <<>>
                /\ Len(Flatten(selected)) + Len(Flatten(unselected)) =
                       Len(Flatten(question.Choices))

\* one choice of each row is selected: the unselected choices are one row, the second
\* row having nothing left
C30_Witness ==
    /\ last.op = "GetUnselectedChoices"
    /\ questions["q1"][1].Choices = <<<<"a", "b", "a">>, <<"b">>>>
    /\ questions["q1"][1].ChoicesSelected = <<"zz", "b">>
    /\ last.out = <<<<"a", "a">>>>
    /\ GetSelectedChoices(questions["q1"][1]) = <<<<"b">>, <<"b">>>>

\* C34: Answer and Show only run with 0 <= currentQuestionIndex < len(questions): no
\* text message routed by the Manager and no keyboard callback reaches the indexing of
\* q.questions[q.currentQuestionIndex] with the index out of range, also after the
\* questionnaire has completed.
C34_AnswerInRange ==
    \A q \in Qs :
        (last.q = q /\ last.op \in {"HandleMessage", "onInlineKeyboardSelect",
                                    "onDoneChoosing", "onInlineKeyboardUnSelect"})
            => last.ret # "panic"

\* C35: once the cancel callback of a questionnaire has run (its tracked messages deleted
\* and its onCancelHandler invoked), the next user event, a text message or a callback,
\* neither advances that questionnaire's currentQuestionIndex nor invokes its
\* onDoneHandler.
C35_CancelledStaysPut ==
    [][\A q \in Qs :
          (/\ last.op = "onCancel" /\ last.q = q
           /\ \E i \in Effects("onCancelHandler") : last.out[i].q = q)
          => /\ currentQuestionIndex'[q] = currentQuestionIndex[q]
             /\ \A i \in DOMAIN last'.out :
                    ~(last'.out[i].e = "onDoneHandler" /\ last'.out[i].q = q)]_vars

\* C36: in every reachable state the ChoicesSelected of a checkbox question holds no entry
\* twice and holds only CallbackData values of the question's own choices.
C36_SelectedAreChoices ==
    \A q \in Qs : \A i \in DOMAIN questions[q] :
        LET question == questions[q][i]
            sel == question.ChoicesSelected
        IN question.QuestionFormat = QuestionFormatCheck =>
             /\ \A j, k \in DOMAIN sel : sel[j] = sel[k] => j = k
             /\ \A j \in DOMAIN sel : sel[j] \in ChoiceData(question)

\* C31: a step that changes the set of active filters, by the answer of the filter
\* questionnaire or by the tap on a button that removes a filter, shows the table with
\* pageNum = 1.
C31_FilterChangeResetsPage ==
    [][FilterOf(currentFilter') # FilterOf(currentFilter)
         => /\ currentFilter'.pageNum = 1
            /\ last'.out[1].e = "dataHandler"
            /\ last'.out[1].pageNum = 1]_vars

\* C32: the tap on the button that removes the filter of key k shows the table with k
\* absent from the filter map the data handler gets and with no button that removes k,
\* and with every other entry of the filter map, pageSize among them, as it was.
C32_RemoveFilter ==
    [][last'.op = "handleRemoveFilter" =>
         LET k == TrimPrefix(last'.arg, cbPfxRemoveFilter)
             passed == last'.out[1].filter
         IN  /\ last'.out[1].e = "dataHandler"
             /\ k \notin DOMAIN passed
             /\ \A b \in Range(controls') : b.data # cbPfxRemoveFilter \o k
             /\ DOMAIN passed = DOMAIN currentFilter \ {k}
             /\ \A j \in DOMAIN passed : passed[j] = currentFilter[j]]_vars

\* the filter of f1 was removed on page 2 while the filter of f2 is set
C32_Witness ==
    /\ last.op = "handleRemoveFilter"
    /\ last.arg = cbPfxRemoveFilter \o "f1"
    /\ IsSet(currentFilter, "f2")
    /\ ~IsSet(currentFilter, "f1")
    /\ currentFilter.pageNum = 2
    /\ \E b \in Range(controls) : b.data = cbPfxRemoveFilter \o "f2"

\* the handlers nagivateCallback runs
TableHandlers ==
    {"handleNextPage", "handlePreviousPage", "handleSetPage", "handleShowFilterMenu",
     "handleFilterCancel", "handleStartFilterQuestionnaire", "handleRemoveFilter"}

\* the step showed the table: the data handler was called and the controls were sent
Rendered ==
    /\ Len(last'.out) = 1
    /\ last'.out[1].e = "dataHandler"
    /\ last'.out[1].pageNum = currentFilter'.pageNum
    /\ controls' \in screen'

\* the step left every entry of the filter map other than pageNum as it was
OtherEntriesKept ==
    /\ DOMAIN currentFilter' = DOMAIN currentFilter
    /\ \A k \in DOMAIN currentFilter \ {"pageNum"} : currentFilter'[k] = currentFilter[k]

\* C33: the next callback adds exactly 1 to pageNum and shows the table; the back callback
\* takes exactly 1 from pageNum and shows the table when pageNum > 1, and otherwise
\* changes nothing of the table and sends nothing; neither changes another entry of the
\* filter map.
C33_NextAndBack ==
    [][/\ (last'.op \in TableHandlers /\ last'.arg = cbCmdNext) =>
            /\ currentFilter'.pageNum = currentFilter.pageNum + 1
            /\ Rendered
            /\ OtherEntriesKept
       /\ (last'.op \in TableHandlers /\ last'.arg = cbCmdBack) =>
            IF currentFilter.pageNum > 1
            THEN /\ currentFilter'.pageNum = currentFilter.pageNum - 1
                 /\ Rendered
                 /\ OtherEntriesKept
            ELSE /\ currentFilter' = currentFilter
                 /\ pagesCount' = pagesCount
                 /\ controls' = controls
                 /\ last'.out = <<>>
                 /\ screen' \subseteq screen]_vars

\* Back was tapped on a keyboard that was sent on a later page, with the table on page 1
C33_WitnessBack ==
    /\ last.op = "handlePreviousPage"
    /\ last.out = <<>>
    /\ currentFilter.pageNum = 1
    /\ IsSet(currentFilter, "f1")

\* C37: with a data handler that reports the same pagesCount >= 1 for a filter on every
\* call, a table that shows a page within [1, pagesCount] is still on a page within
\* [1, pagesCount] after a callback of a button of the keyboard it last sent (next, back,
\* a numbered page, a first or last shortcut, the removal of a filter) and after the
\* answer of the filter questionnaire.
C37_PageStaysInRange ==
    [][(/\ pagesCount >= 1
        /\ currentFilter.pageNum \in 1..pagesCount
        /\ \/ /\ last'.op \in TableHandlers
              /\ controls \in screen
              /\ \E b \in Range(controls) : b.data = last'.arg
           \/ last'.op = "fun")
       => currentFilter'.pageNum \in 1..pagesCount']_vars

====
